---------------------------- MODULE Spec2Model ----------------------------
(***************************************************************************)
(* OCR post-correction of Odia documents: the rule-based cleaners of       *)
(* targeted_ocr_corrections.py, conservative_cleaner.py,                   *)
(* odia_text_cleaner.py and advanced_error_pattern_analyzer.py.            *)
(*                                                                         *)
(* A text is a sequence of Unicode code points (natural numbers), so the   *)
(* character classes of the regular expressions are sets of code points    *)
(* and every substitution is computed the way re.sub computes it: leftmost *)
(* match first, greedy quantifiers, matches never overlapping, the scan    *)
(* resuming right after the previous match.                                *)
(***************************************************************************)
EXTENDS Naturals, Integers, Sequences, FiniteSets, TLC

VARIABLES
    text,       \* the text handed to the operation
    result,     \* the text the operation returned
    count,      \* the corrections count the operation returned
    op,         \* the operation that ran last ("start" before any)
    corrections_made,   \* OdiaTextCleaner.corrections_made
    doc,        \* the paragraphs of the loaded Word document
    saved,      \* NotSaved, or Saved(d) after doc.save wrote paragraphs d
    report,     \* the analysis the analyzer returned, or NoReport
    stages,     \* the cleaning stages the last clean_text call ran
    cleaned_files_count,    \* OdiaTextCleaner.cleaned_files_count
    batch,      \* a clean_directory run: the files, the loop, the statistics
    workers,    \* the workers that share one OdiaTextCleaner
    pdf         \* an extract_text_from_pdf call: the file and the outcome

vars == <<text, result, count, op, corrections_made, doc, saved, report,
          stages, cleaned_files_count, batch, workers, pdf>>

NotSaved == <<>>
Saved(d) == <<d>>
NoReport == [returned |-> "nothing yet"]

\* the variables of the document-level operations
docVars == <<doc, saved, report>>

\* the variables of the text-level operations
textVars == <<text, result, count>>

\* the variables of the batch run, the shared-cleaner workers and the PDF
\* extractor, and their values while those components are not in use
NoBatch == [pc |-> "idle"]
NoWorkers == <<>>
NoPdf == [pc |-> "idle"]

otherVars == <<stages, cleaned_files_count, batch, workers, pdf>>

OthersIdle ==
    /\ stages = <<>>
    /\ cleaned_files_count = 0
    /\ batch = NoBatch
    /\ workers = NoWorkers
    /\ pdf = NoPdf

(***************************************************************************)
(* Bounds of the checked inputs.                                           *)
(***************************************************************************)
MaxLen == 3          \* texts over the full model alphabet
MaxChain == 5        \* texts over the Odia-and-space alphabet

(***************************************************************************)
(* Character classes, as Python's re and str see them.                     *)
(***************************************************************************)
\* \s of re (str patterns) and the characters str.strip() removes
Whitespace ==
    (9..13) \cup (28..32) \cup {133, 160, 5760} \cup (8192..8202)
        \cup {8232, 8233, 8239, 8287, 12288}

\* \w of re, for the code points of Basic Latin, Latin-1, Devanagari,
\* Odia, the Bengali digits and the symbol blocks used by the rules; other
\* blocks do not occur in the texts of this model.
WordChars ==
    (48..57) \cup (65..90) \cup {95} \cup (97..122)
        \cup {170, 178, 179, 181, 185, 186} \cup (188..190)
        \cup (192..214) \cup (216..246) \cup (248..255)
        \cup (2308..2361) \cup {2365, 2384} \cup (2392..2401)
        \cup (2406..2415) \cup (2417..2431) \cup (2534..2543)
        \cup (2821..2828) \cup (2831..2832) \cup (2835..2856)
        \cup (2858..2864) \cup (2866..2867) \cup (2869..2873)
        \cup {2877} \cup (2908..2909) \cup (2911..2913)
        \cup (2918..2927) \cup (2929..2935)

\* str.isalnum() of a one-character string: \w without the underscore
IsAlnum(c) == c \in WordChars \ {95}

AsciiDigits == 48..57

\* the class [ଅ-ୱ] of the pattern rules: U+0B05 .. U+0B71
OdiaLetterRange == 2821..2929

\* the class [ାିୀୁୂୃେୈୋୌ]: the dependent vowel signs
VowelSigns == {2878, 2879, 2880, 2881, 2882, 2883, 2887, 2888, 2891, 2892}

\* the class [ଅ-ୱାିୀୁୂୃେୈୋୌ]
JoinSecond == OdiaLetterRange \cup VowelSigns

\* the class [।,;:!?]
ClausePunct == {2404, 44, 59, 58, 33, 63}

\* the class of the 'Remove OCR symbol artifacts' rule
SymbolArtifacts ==
    (162..165) \cup {167, 169, 174, 177, 182, 215, 247}
        \cup (8224..8226) \cup (8240..8250) \cup (8252..8253)
        \cup (8263..8265) \cup (8270..8286) \cup (8360..8364)
        \cup (8367..8378) \cup {8482} \cup (8733..8734) \cup (8736..8755)

(***************************************************************************)
(* Sequence helpers.                                                       *)
(***************************************************************************)
\* s[i] when i is an index of s, otherwise a value no class contains
At(s, i) == IF i \in 1..Len(s) THEN s[i] ELSE -1

\* the last index of the maximal run of characters of S that starts at i
\* (i - 1 when s[i] is not in S): a greedy S+ or S*
RECURSIVE RunEnd(_, _, _)
RunEnd(s, i, S) ==
    IF At(s, i) \in S THEN RunEnd(s, i + 1, S) ELSE i - 1

\* s[i..j]
Slice(s, i, j) == IF j < i THEN <<>> ELSE SubSeq(s, i, j)

\* e, evaluated once v has its value: the statements of a loop body run to
\* completion before the next iteration starts (TLC would otherwise delay
\* the whole loop to the point where the final value is used)
AfterComputing(v, e) == IF v = v THEN e ELSE e

\* str.strip(): leading and trailing whitespace removed
RECURSIVE LStrip(_)
LStrip(s) ==
    IF s # <<>> /\ Head(s) \in Whitespace THEN LStrip(Tail(s)) ELSE s

RECURSIVE RStrip(_)
RStrip(s) ==
    IF s # <<>> /\ s[Len(s)] \in Whitespace
    THEN RStrip(SubSeq(s, 1, Len(s) - 1)) ELSE s

Strip(s) == RStrip(LStrip(s))

\* does old occur in s at index i
OccursAt(s, i, old) ==
    /\ i + Len(old) - 1 <= Len(s)
    /\ SubSeq(s, i, i + Len(old) - 1) = old

\* str.replace(old, new), old non-empty: leftmost occurrences, not overlapping
RECURSIVE ReplaceFrom(_, _, _, _)
ReplaceFrom(s, i, old, new) ==
    IF i > Len(s) THEN <<>>
    ELSE IF OccursAt(s, i, old)
         THEN new \o ReplaceFrom(s, i + Len(old), old, new)
         ELSE <<s[i]>> \o ReplaceFrom(s, i + 1, old, new)

StrReplace(s, old, new) == ReplaceFrom(s, 1, old, new)

\* str.count(old), old non-empty: occurrences that do not overlap
RECURSIVE CountFrom(_, _, _)
CountFrom(s, i, old) ==
    IF i > Len(s) THEN 0
    ELSE IF OccursAt(s, i, old)
         THEN 1 + CountFrom(s, i + Len(old), old)
         ELSE CountFrom(s, i + 1, old)

StrCount(s, old) == CountFrom(s, 1, old)

(***************************************************************************)
(* TargetedOCRCorrector: the correction tables (setup_correction_rules).   *)
(***************************************************************************)
\* character_replacements, in the dictionary's insertion order
character_replacements ==
  << <<97, 2821>>, <<101, 2831>>, <<105, 2823>>, <<111, 2835>>,
     <<116, 2852>>, <<65, 2821>>, <<110, 2856>>, <<114, 2864>>,
     <<115, 2872>>, <<100, 2854>>, <<108, 2866>>, <<99, 2842>>,
     <<71, 2839>>, <<103, 2839>>, <<69, 2831>>,
     <<48, 2918>>, <<49, 2919>>, <<50, 2920>>, <<51, 2921>>, <<52, 2922>>,
     <<53, 2923>>, <<54, 2924>>, <<55, 2925>>, <<56, 2926>>, <<57, 2927>>,
     <<124, 2404>> >>

\* the characters replaced with str.replace instead of the \b pattern
PipeSpecial == {124}

\* pattern_corrections with the symbol rule moved behind the two collapse
\* rules
pattern_corrections_collapse_first ==
  << "join_separated_odia", "trailing_halanta", "space_before_punctuation",
     "multiple_punctuation", "multiple_spaces", "multiple_underscores",
     "underscore_before_odia", "underscore_after_odia", "multiple_danda",
     "multiple_commas", "symbol_artifacts" >>

\* pattern_corrections: the rules, in list order
pattern_corrections ==
  << "join_separated_odia",        \* ([ଅ-ୱ])\s+([ଅ-ୱାିୀୁୂୃେୈୋୌ]) -> \1\2
     "trailing_halanta",           \* ([ଅ-ୱ])୍\s+              -> \1 space
     "space_before_punctuation",   \* \s+([।,;:!?])             -> \1
     "multiple_punctuation",       \* ([।,;:!?])\s*([।,;:!?])   -> \1\2
     "multiple_spaces",            \* \s{2,}                    -> space
     "symbol_artifacts",           \* [€©™®...]                 -> empty
     "multiple_underscores",       \* _{2,}                     -> empty
     "underscore_before_odia",     \* _([ଅ-ୱ])                  -> \1
     "underscore_after_odia",      \* ([ଅ-ୱ])_                  -> \1
     "multiple_danda",             \* ।{2,}                     -> ।
     "multiple_commas" >>          \* ,{2,}                     -> ,

\* medical_term_corrections, in the dictionary's insertion order
medical_term_corrections ==
  << <<<<2864, 2891, 2839, 2893>>, <<2864, 2891, 2839>>>>,
     <<<<2863, 2891, 2839, 2893>>, <<2863, 2891, 2839>>>>,
     <<<<2842, 2879, 2837, 2879, 2852, 2872, 2878>>,
       <<2842, 2879, 2837, 2879, 2852, 2893, 2872, 2878>>>>,
     <<<<2836, 2871, 2855, 2893>>, <<2836, 2871, 2855>>>>,
     <<<<2858, 2852, 2864>>, <<2858, 2852, 2893, 2864>>>>,
     <<<<2862, 2882, 2866>>, <<2862, 2882, 2867>>>>,
     <<<<2859, 2867, 2893>>, <<2859, 2867>>>>,
     <<<<2864, 2872, 2893>>, <<2864, 2872>>>>,
     <<<<2852, 2887, 2866, 2893>>, <<2852, 2887, 2866>>>>,
     <<<<2844, 2893, 2860, 2864, 2893>>, <<2844, 2893, 2860, 2864>>>>,
     <<<<2858, 2887, 2847, 2893>>, <<2858, 2887, 2847>>>>,
     <<<<2862, 2881, 2851, 2849>>, <<2862, 2881, 2851, 2893, 2849>>>>,
     <<<<2822, 2838, 2879, 2893>>, <<2822, 2838, 2879>>>>,
     <<<<2837, 2878, 2856, 2893>>, <<2837, 2878, 2856>>>>,
     <<<<2856, 2878, 2837, 2893>>, <<2856, 2878, 2837>>>>,
     <<<<2839, 2867, 2878, 2893>>, <<2839, 2867, 2878>>>>,
     <<<<2873, 2878, 2852, 2893>>, <<2873, 2878, 2852>>>>,
     <<<<2858, 2878, 2854, 2893>>, <<2858, 2878, 2854>>>>,
     <<<<2872, 2887, 2864, 2893>>, <<2872, 2887, 2864>>>>,
     <<<<2858, 2878, 2856, 2893>>, <<2858, 2878, 2856>>>>,
     <<<<2847, 2891, 2858, 2878, 2893>>, <<2847, 2891, 2858, 2878>>>> >>

(***************************************************************************)
(* The pattern rules as re.sub applies them.                               *)
(***************************************************************************)
\* Each ...MatchEnd(s, i) is the last index of the rule's match that
\* starts at index i of s, or 0 when the rule does not match at i.  In
\* every rule the character after a greedy whitespace run must be a
\* non-whitespace character, so giving characters back never turns a
\* failed match into a match.

\* the join pattern with \s in place of \s+: one whitespace character only
JoinMatchEndOneSpace(s, i) ==
    IF /\ At(s, i) \in OdiaLetterRange
       /\ At(s, i + 1) \in Whitespace
       /\ At(s, i + 2) \in JoinSecond
    THEN i + 2 ELSE 0

\* ([ଅ-ୱ])\s+([ଅ-ୱାିୀୁୂୃେୈୋୌ])
JoinMatchEnd(s, i) ==
    LET w == RunEnd(s, i + 1, Whitespace) IN
    IF /\ At(s, i) \in OdiaLetterRange
       /\ w >= i + 1
       /\ At(s, w + 1) \in JoinSecond
    THEN w + 1 ELSE 0

\* ([ଅ-ୱ])୍\s+
HalantaMatchEnd(s, i) ==
    LET w == RunEnd(s, i + 2, Whitespace) IN
    IF /\ At(s, i) \in OdiaLetterRange
       /\ At(s, i + 1) = 2893
       /\ w >= i + 2
    THEN w ELSE 0

\* \s+([।,;:!?])
SpacePunctMatchEnd(s, i) ==
    LET w == RunEnd(s, i, Whitespace) IN
    IF w >= i /\ At(s, w + 1) \in ClausePunct THEN w + 1 ELSE 0

\* ([।,;:!?])\s*([।,;:!?])
MultiPunctMatchEnd(s, i) ==
    LET w == RunEnd(s, i + 1, Whitespace) IN
    IF At(s, i) \in ClausePunct /\ At(s, w + 1) \in ClausePunct
    THEN w + 1 ELSE 0

\* X{2,} for a character class X
RepeatMatchEnd(s, i, X) ==
    LET w == RunEnd(s, i, X) IN IF w >= i + 1 THEN w ELSE 0

\* the symbol class as a run pattern [€©™®...]{2,}: single symbols kept
SymbolRunMatchEnd(s, i) == RepeatMatchEnd(s, i, SymbolArtifacts)

\* [€©™®...]
SymbolMatchEnd(s, i) == IF At(s, i) \in SymbolArtifacts THEN i ELSE 0

\* _([ଅ-ୱ])
UnderscoreBeforeMatchEnd(s, i) ==
    IF At(s, i) = 95 /\ At(s, i + 1) \in OdiaLetterRange THEN i + 1 ELSE 0

\* ([ଅ-ୱ])_
UnderscoreAfterMatchEnd(s, i) ==
    IF At(s, i) \in OdiaLetterRange /\ At(s, i + 1) = 95 THEN i + 1 ELSE 0

\* ' +।' of ConservativeCleaner.safe_patterns
SpaceDandaMatchEnd(s, i) ==
    LET w == RunEnd(s, i, {32}) IN
    IF w >= i /\ At(s, w + 1) = 2404 THEN w + 1 ELSE 0

\* '। +' of ConservativeCleaner.safe_patterns
DandaSpaceMatchEnd(s, i) ==
    LET w == RunEnd(s, i + 1, {32}) IN
    IF At(s, i) = 2404 /\ w >= i + 1 THEN w ELSE 0

(***************************************************************************)
(* OdiaTextCleaner.pattern_corrections, applied with re.MULTILINE.         *)
(***************************************************************************)
\* \d of re: the decimal digits of the ASCII, Devanagari, Bengali and Odia
\* blocks (digits of other scripts do not occur in the texts of this model)
DecimalDigits == (48..57) \cup (2406..2415) \cup (2534..2543) \cup (2918..2927)

AsciiLetters == (65..90) \cup (97..122)

\* the class [€©×†¥£]
CurrencySymbols == {8364, 169, 215, 8224, 165, 163}

\* the class [€©×†¥£§¦°•‹›″′‡‰‱]
ClusterSymbols ==
    CurrencySymbols
        \cup {167, 166, 176, 8226, 8249, 8250, 8243, 8242, 8225, 8240, 8241}

\* the class [\\\/\|\~\@\#\$\%\^\&\*\+\=\<\>\[\]\{\}]
StandaloneSymbols ==
    {92, 47, 124, 126, 64, 35, 36, 37, 94, 38, 42, 43, 61, 60, 62,
     91, 93, 123, 125}

\* the class of the 'lines with predominantly symbols' pattern
LineSymbols == ClusterSymbols \cup StandaloneSymbols

\* the characters the class [^ଅ-ହ\s\d\।\.\,\;\:\!\?\-] excludes
BracketContent ==
    (2821..2873) \cup Whitespace \cup DecimalDigits
        \cup {2404, 46, 44, 59, 58, 33, 63, 45}

\* the class [।\.\,\;\:\!\?]
SentencePunct == {2404, 46, 44, 59, 58, 33, 63}

\* \b[a-zA-Z]\b
LetterMatchEnd(s, i) ==
    IF /\ At(s, i) \in AsciiLetters
       /\ At(s, i - 1) \notin WordChars
       /\ At(s, i + 1) \notin WordChars
    THEN i ELSE 0

\* \d+[€©×†¥£]+\d*
DigitsSymbolsMatchEnd(s, i) ==
    LET d == RunEnd(s, i, DecimalDigits)
        y == RunEnd(s, d + 1, CurrencySymbols)
    IN  IF d >= i /\ y >= d + 1 THEN RunEnd(s, y + 1, DecimalDigits) ELSE 0

\* [€©×†¥£]+\d+
SymbolsDigitsMatchEnd(s, i) ==
    LET y == RunEnd(s, i, CurrencySymbols)
        d == RunEnd(s, y + 1, DecimalDigits)
    IN  IF y >= i /\ d >= y + 1 THEN d ELSE 0

\* X+ for a character class X
RunMatchEnd(s, i, X) ==
    LET w == RunEnd(s, i, X) IN IF w >= i THEN w ELSE 0

\* ^[€©×...\{\}]+$ with re.MULTILINE: ^ matches at the start of the text and
\* after every newline, $ at the end of the text and before every newline
SymbolLineMatchEnd(s, i) ==
    LET y == RunEnd(s, i, LineSymbols) IN
    IF /\ (i = 1 \/ At(s, i - 1) = 10)
       /\ y >= i
       /\ (y = Len(s) \/ At(s, y + 1) = 10)
    THEN y ELSE 0

\* ୮+\w* (୮ is itself a word character)
OdiaEightMatchEnd(s, i) ==
    IF At(s, i) = 2926
    THEN RunEnd(s, RunEnd(s, i, {2926}) + 1, WordChars) ELSE 0

\* \d+/\d+€
FractionMatchEnd(s, i) ==
    LET d == RunEnd(s, i, DecimalDigits)
        e == RunEnd(s, d + 2, DecimalDigits)
    IN  IF /\ d >= i
           /\ At(s, d + 1) = 47
           /\ e >= d + 2
           /\ At(s, e + 1) = 8364
        THEN e + 1 ELSE 0

\* &\w+;
EntityMatchEnd(s, i) ==
    LET w == RunEnd(s, i + 1, WordChars) IN
    IF At(s, i) = 38 /\ w >= i + 1 /\ At(s, w + 1) = 59 THEN w + 1 ELSE 0

\* the last index of the maximal run of characters outside S that starts
\* at i (i - 1 when there is none): a greedy [^S]*
RECURSIVE RunEndOutside(_, _, _)
RunEndOutside(s, i, S) ==
    IF i <= Len(s) /\ s[i] \notin S THEN RunEndOutside(s, i + 1, S) ELSE i - 1

\* \([^ଅ-ହ\s\d\।\.\,\;\:\!\?\-]*\): the class also takes parentheses, so the
\* greedy run is given back up to the last closing parenthesis inside it
BracketMatchEnd(s, i) ==
    LET y == RunEndOutside(s, i + 1, BracketContent)
        closing == {j \in (i + 1)..y : s[j] = 41}
    IN  IF At(s, i) = 40 /\ closing # {}
        THEN CHOOSE j \in closing : \A h \in closing : h <= j
        ELSE 0

\* [\\\/\|...\{\}]
StandaloneSymbolMatchEnd(s, i) ==
    IF At(s, i) \in StandaloneSymbols THEN i ELSE 0

\* \s+([।\.\,\;\:\!\?])
SpaceSentencePunctMatchEnd(s, i) ==
    LET w == RunEnd(s, i, Whitespace) IN
    IF w >= i /\ At(s, w + 1) \in SentencePunct THEN w + 1 ELSE 0

\* ([।\.\,\;\:\!\?])\s*([।\.\,\;\:\!\?])
PunctPairMatchEnd(s, i) ==
    LET w == RunEnd(s, i + 1, Whitespace) IN
    IF At(s, i) \in SentencePunct /\ At(s, w + 1) \in SentencePunct
    THEN w + 1 ELSE 0

(***************************************************************************)
(* AdvancedErrorPatternAnalyzer.error_patterns and common_patterns, which  *)
(* are searched and never substituted.                                     *)
(***************************************************************************)
\* (A)\s+(B) for character classes A and B
BrokenMatchEnd(s, i, A, B) ==
    LET w == RunEnd(s, i + 1, Whitespace) IN
    IF At(s, i) \in A /\ w >= i + 1 /\ At(s, w + 1) \in B
    THEN w + 1 ELSE 0

\* ([ଅ-ୱ])୍\s
HalantaSpaceMatchEnd(s, i) ==
    IF /\ At(s, i) \in OdiaLetterRange
       /\ At(s, i + 1) = 2893
       /\ At(s, i + 2) \in Whitespace
    THEN i + 2 ELSE 0

\* ୍([ଅ-ୱ])
HalantaOdiaMatchEnd(s, i) ==
    IF At(s, i) = 2893 /\ At(s, i + 1) \in OdiaLetterRange THEN i + 1 ELSE 0

\* \bX{n,}\b for a class X of word characters: a run of X of length n or
\* more with no word character before it and none after it (inside the run
\* there is no word boundary, so the run is never given back)
WordRunMatchEnd(s, i, X, n) ==
    LET e == RunEnd(s, i, X) IN
    IF /\ e >= i + n - 1
       /\ At(s, i - 1) \notin WordChars
       /\ At(s, e + 1) \notin WordChars
    THEN e ELSE 0

\* [0-9]([ଅ-ୱ])
DigitOdiaMatchEnd(s, i) ==
    IF At(s, i) \in AsciiDigits /\ At(s, i + 1) \in OdiaLetterRange
    THEN i + 1 ELSE 0

\* ([ଅ-ୱ])[0-9]
OdiaDigitMatchEnd(s, i) ==
    IF At(s, i) \in OdiaLetterRange /\ At(s, i + 1) \in AsciiDigits
    THEN i + 1 ELSE 0

\* ^\s+ without re.MULTILINE: at the start of the text only
LeadingWsMatchEnd(s, i) ==
    IF i = 1 /\ At(s, 1) \in Whitespace THEN RunEnd(s, 1, Whitespace) ELSE 0

\* \s+$ without re.MULTILINE: a whitespace run that reaches the end of the
\* text ($ also matches before a final newline, which such a run includes)
TrailingWsMatchEnd(s, i) ==
    LET w == RunEnd(s, i, Whitespace) IN
    IF w >= i /\ w = Len(s) THEN w ELSE 0

\* \|
PipeMatchEnd(s, i) == IF At(s, i) = 124 THEN i ELSE 0

RuleMatchEnd(r, s, i) ==
    CASE r = "join_separated_odia"      -> JoinMatchEnd(s, i)
      [] r = "trailing_halanta"         -> HalantaMatchEnd(s, i)
      [] r = "space_before_punctuation" -> SpacePunctMatchEnd(s, i)
      [] r = "multiple_punctuation"     -> MultiPunctMatchEnd(s, i)
      [] r = "multiple_spaces"          -> RepeatMatchEnd(s, i, Whitespace)
      [] r = "symbol_artifacts"         -> SymbolMatchEnd(s, i)
      [] r = "multiple_underscores"     -> RepeatMatchEnd(s, i, {95})
      [] r = "underscore_before_odia"   -> UnderscoreBeforeMatchEnd(s, i)
      [] r = "underscore_after_odia"    -> UnderscoreAfterMatchEnd(s, i)
      [] r = "multiple_danda"           -> RepeatMatchEnd(s, i, {2404})
      [] r = "multiple_commas"          -> RepeatMatchEnd(s, i, {44})
      [] r = "safe_multiple_spaces"     -> RepeatMatchEnd(s, i, {32})
      [] r = "safe_space_before_danda"  -> SpaceDandaMatchEnd(s, i)
      [] r = "safe_space_after_danda"   -> DandaSpaceMatchEnd(s, i)
      [] r = "safe_line_breaks"         -> RepeatMatchEnd(s, i, {10})
      [] r = "standalone_letter"        -> LetterMatchEnd(s, i)
      [] r = "digits_then_symbols"      -> DigitsSymbolsMatchEnd(s, i)
      [] r = "symbols_then_digits"      -> SymbolsDigitsMatchEnd(s, i)
      [] r = "whitespace_run"           -> RunMatchEnd(s, i, Whitespace)
      [] r = "symbol_line"              -> SymbolLineMatchEnd(s, i)
      [] r = "corrupted_number"         -> OdiaEightMatchEnd(s, i)
      [] r = "fraction_with_symbol"     -> FractionMatchEnd(s, i)
      [] r = "symbol_cluster"           -> RunMatchEnd(s, i, ClusterSymbols)
      [] r = "html_entity"              -> EntityMatchEnd(s, i)
      [] r = "garbage_brackets"         -> BracketMatchEnd(s, i)
      [] r = "standalone_symbol"        -> StandaloneSymbolMatchEnd(s, i)
      [] r = "space_before_sentence_punctuation"
                                        -> SpaceSentencePunctMatchEnd(s, i)
      [] r = "punctuation_pair"         -> PunctPairMatchEnd(s, i)
      [] r = "space_run"                -> RunMatchEnd(s, i, {32})
      [] r = "newline_run"              -> RunMatchEnd(s, i, {10})
      [] r = "broken_odia_odia"         ->
             BrokenMatchEnd(s, i, OdiaLetterRange, OdiaLetterRange)
      [] r = "broken_odia_sign"         ->
             BrokenMatchEnd(s, i, OdiaLetterRange, VowelSigns)
      [] r = "broken_sign_odia"         ->
             BrokenMatchEnd(s, i, VowelSigns, OdiaLetterRange)
      [] r = "halanta_before_space"     -> HalantaSpaceMatchEnd(s, i)
      [] r = "halanta_before_odia"      -> HalantaOdiaMatchEnd(s, i)
      [] r = "english_word"             -> WordRunMatchEnd(s, i, AsciiLetters, 2)
      [] r = "standalone_number"        -> WordRunMatchEnd(s, i, AsciiDigits, 1)
      [] r = "digit_before_odia"        -> DigitOdiaMatchEnd(s, i)
      [] r = "digit_after_odia"         -> OdiaDigitMatchEnd(s, i)
      [] r = "multiple_pipes"           -> RepeatMatchEnd(s, i, {124})
      [] r = "leading_whitespace"       -> LeadingWsMatchEnd(s, i)
      [] r = "trailing_whitespace"      -> TrailingWsMatchEnd(s, i)
      [] r = "pipe"                     -> PipeMatchEnd(s, i)

\* The replacement of rule r for the match s[i..e]
RuleReplacement(r, s, i, e) ==
    CASE r = "join_separated_odia"      -> <<s[i], s[e]>>
      [] r = "trailing_halanta"         -> <<s[i], 32>>
      [] r = "space_before_punctuation" -> <<s[e]>>
      [] r = "multiple_punctuation"     -> <<s[i], s[e]>>
      [] r = "multiple_spaces"          -> <<32>>
      [] r = "symbol_artifacts"         -> <<>>
      [] r = "multiple_underscores"     -> <<>>
      [] r = "underscore_before_odia"   -> <<s[e]>>
      [] r = "underscore_after_odia"    -> <<s[i]>>
      [] r = "multiple_danda"           -> <<2404>>
      [] r = "multiple_commas"          -> <<44>>
      [] r = "safe_multiple_spaces"     -> <<32>>
      [] r = "safe_space_before_danda"  -> <<2404>>
      [] r = "safe_space_after_danda"   -> <<2404, 32>>
      [] r = "safe_line_breaks"         -> <<10, 10>>
      [] r = "standalone_letter"        -> <<>>
      [] r = "digits_then_symbols"      -> <<>>
      [] r = "symbols_then_digits"      -> <<>>
      [] r = "whitespace_run"           -> <<32>>
      [] r = "symbol_line"              -> <<>>
      [] r = "corrupted_number"         -> <<>>
      [] r = "fraction_with_symbol"     -> <<>>
      [] r = "symbol_cluster"           -> <<>>
      [] r = "html_entity"              -> <<>>
      [] r = "garbage_brackets"         -> <<>>
      [] r = "standalone_symbol"        -> <<>>
      [] r = "space_before_sentence_punctuation" -> <<s[e]>>
      [] r = "punctuation_pair"         -> <<s[i], 32, s[e]>>
      [] r = "space_run"                -> <<32>>
      [] r = "newline_run"              -> <<10>>

\* re.sub(pattern, replacement, s) from index i on
RECURSIVE RuleSubFrom(_, _, _)
RuleSubFrom(r, s, i) ==
    IF i > Len(s) THEN <<>>
    ELSE LET Substituted(e) ==
                 IF e = 0 THEN <<s[i]>> \o RuleSubFrom(r, s, i + 1)
                 ELSE RuleReplacement(r, s, i, e) \o RuleSubFrom(r, s, e + 1)
         IN  Substituted(RuleMatchEnd(r, s, i))

RuleSub(r, s) == RuleSubFrom(r, s, 1)

\* len(re.findall(pattern, s)) from index i on
RECURSIVE RuleFindallFrom(_, _, _)
RuleFindallFrom(r, s, i) ==
    IF i > Len(s) THEN 0
    ELSE LET Found(e) ==
                 IF e = 0 THEN RuleFindallFrom(r, s, i + 1)
                 ELSE 1 + RuleFindallFrom(r, s, e + 1)
         IN  Found(RuleMatchEnd(r, s, i))

RuleFindall(r, s) == RuleFindallFrom(r, s, 1)

\* the scan of re.finditer(pattern, s) over the positions lo..hi when the
\* search resumes at index i: the matches that start in lo..hi, in the
\* order of their positions, each as [first, last], the indices of its
\* first and last character, and the index at which the search resumes.
\* A position before i lies inside an earlier match and starts none.  The
\* positions are scanned from left to right, half after half.
RECURSIVE RuleScan(_, _, _, _, _)
RuleScan(r, s, lo, hi, i) ==
    IF lo = hi
    THEN LET Single(e) ==
                 IF e = 0 THEN [found |-> <<>>, next |-> i]
                 ELSE [found |-> <<[first |-> lo, last |-> e]>>,
                       next  |-> e + 1]
         IN  Single(IF lo < i THEN 0 ELSE RuleMatchEnd(r, s, lo))
    ELSE LET Joined(left, right) ==
                 [found |-> left.found \o right.found, next |-> right.next]
             Second(left) ==
                 AfterComputing(left,
                     Joined(left, RuleScan(r, s, ((lo + hi) \div 2) + 1, hi,
                                           left.next)))
         IN  Second(RuleScan(r, s, lo, (lo + hi) \div 2, i))

\* re.finditer(pattern, s)
RuleFinditer(r, s) ==
    IF s = <<>> THEN <<>> ELSE RuleScan(r, s, 1, Len(s), 1).found

(***************************************************************************)
(* TargetedOCRCorrector: the three correction passes.                      *)
(***************************************************************************)
\* does \b c \b match at index i: c stands there and has no word character
\* on either side (c itself is a word character)
StandaloneAt(s, i, c) ==
    /\ At(s, i) = c
    /\ At(s, i - 1) \notin WordChars
    /\ At(s, i + 1) \notin WordChars

\* re.sub(r'\b' + c + r'\b', new, s) from index i on; a match is one
\* character long and \b looks at the characters of s itself
RECURSIVE StandaloneSubFrom(_, _, _, _)
StandaloneSubFrom(s, i, c, new) ==
    IF i > Len(s) THEN <<>>
    ELSE <<IF StandaloneAt(s, i, c) THEN new ELSE s[i]>>
             \o StandaloneSubFrom(s, i + 1, c, new)

StandaloneSub(s, c, new) == StandaloneSubFrom(s, 1, c, new)

\* len(re.findall(r'\b' + c + r'\b', s))
StandaloneCount(s, c) ==
    Cardinality({i \in 1..Len(s) : StandaloneAt(s, i, c)})

\* the loop of apply_character_corrections over entries k.. of the table;
\* acc is [text, count]
RECURSIVE CharacterLoop(_, _)
CharacterLoop(k, acc) ==
    IF k > Len(character_replacements) THEN acc
    ELSE LET Replaced(c, new) ==
                 IF c \in PipeSpecial
                 THEN [text  |-> StrReplace(acc.text, <<c>>, <<new>>),
                       count |-> acc.count + StrCount(acc.text, <<c>>)]
                 ELSE IF IsAlnum(c)
                 THEN [text  |-> StandaloneSub(acc.text, c, new),
                       count |-> acc.count + StandaloneCount(acc.text, c)]
                 ELSE acc
             Continue(next) ==
                 AfterComputing(next, CharacterLoop(k + 1, next))
         IN  Continue(Replaced(character_replacements[k][1],
                               character_replacements[k][2]))

apply_character_corrections(s) == CharacterLoop(1, [text |-> s, count |-> 0])

\* the loop of apply_pattern_corrections over rules k.. of the list
RECURSIVE PatternLoop(_, _)
PatternLoop(k, acc) ==
    IF k > Len(pattern_corrections) THEN acc
    ELSE LET Applied(r) ==
                 [text  |-> RuleSub(r, acc.text),
                  count |-> acc.count + RuleFindall(r, acc.text)]
             Continue(next) == AfterComputing(next, PatternLoop(k + 1, next))
         IN  Continue(Applied(pattern_corrections[k]))

apply_pattern_corrections(s) == PatternLoop(1, [text |-> s, count |-> 0])

\* the loop of apply_medical_term_corrections over entries k.. of the table
RECURSIVE MedicalLoop(_, _)
MedicalLoop(k, acc) ==
    IF k > Len(medical_term_corrections) THEN acc
    ELSE LET Replaced(old, new) ==
                 [text  |-> StrReplace(acc.text, old, new),
                  count |-> acc.count + StrCount(acc.text, old)]
             Continue(next) == AfterComputing(next, MedicalLoop(k + 1, next))
         IN  Continue(Replaced(medical_term_corrections[k][1],
                               medical_term_corrections[k][2]))

apply_medical_term_corrections(s) == MedicalLoop(1, [text |-> s, count |-> 0])

\* re.sub(r'\s+', ' ', s): every whitespace run becomes one space
RECURSIVE CollapseWsFrom(_, _)
CollapseWsFrom(s, i) ==
    IF i > Len(s) THEN <<>>
    ELSE IF s[i] \in Whitespace
         THEN <<32>> \o CollapseWsFrom(s, RunEnd(s, i, Whitespace) + 1)
         ELSE <<s[i]>> \o CollapseWsFrom(s, i + 1)

FinalCleanup(s) == Strip(CollapseWsFrom(s, 1))

\* the body of correct_document's loop for one non-blank paragraph:
\* character, pattern and medical corrections, then the final cleanup
CorrectParagraph(s) ==
    LET AfterTerms(c, p, m) ==
            AfterComputing(m,
                [text  |-> FinalCleanup(m.text),
                 count |-> c.count + p.count + m.count])
        AfterPatterns(c, p) ==
            AfterComputing(p,
                AfterTerms(c, p, apply_medical_term_corrections(p.text)))
        AfterCharacters(c) ==
            AfterComputing(c,
                AfterPatterns(c, apply_pattern_corrections(c.text)))
    IN  AfterCharacters(apply_character_corrections(s))

(***************************************************************************)
(* ConservativeCleaner.                                                    *)
(***************************************************************************)
\* safe_corrections, in the dictionary's insertion order
safe_corrections ==
  << <<169, 2404>>, <<8364, 2831>>, <<8482, 2852>>, <<174, 2864>>,
     <<163, 2866>>, <<165, 2863>>, <<166, 2404>>, <<177, 2858>>,
     <<176, 2404>> >>

\* safe_patterns, in list order
safe_patterns ==
  << "safe_multiple_spaces",       \* '  +'   -> ' '
     "safe_space_before_danda",    \* ' +।'   -> '।'
     "safe_space_after_danda",     \* '। +'   -> '। '
     "safe_line_breaks" >>         \* '\n\n+' -> '\n\n'

\* the Odia Unicode block, '଀' <= char <= '୿'
OdiaBlock == 2816..2943

\* the number of Odia characters in text[start:end] for
\* start = max(0, position - 3) and end = min(len(text), position + 4);
\* position counts from 1 here
OdiaInContext(s, position) ==
    Cardinality({j \in 1..Len(s) :
        /\ j >= position - 3
        /\ j <= position + 3
        /\ s[j] \in OdiaBlock})

\* is_safe_to_correct with the threshold one too high
is_safe_to_correct_three(s, position) == OdiaInContext(s, position) >= 3

is_safe_to_correct(s, position) == OdiaInContext(s, position) >= 2

\* one iteration of the loop over safe_corrections with no list of
\* positions: every old_char is tested and overwritten in one pass from
\* left to right, so a test sees the replacements made before it
RECURSIVE SafeReplaceInPlace(_, _, _, _)
SafeReplaceInPlace(s, i, old_char, new_char) ==
    IF i > Len(s) THEN s
    ELSE SafeReplaceInPlace(
             IF s[i] = old_char /\ is_safe_to_correct(s, i)
             THEN [s EXCEPT ![i] = new_char] ELSE s,
             i + 1, old_char, new_char)

\* one iteration of the loop over safe_corrections: the positions of
\* old_char that are safe are collected on the current text, then every one
\* of them is overwritten with new_char
RECURSIVE SafeReplaceFrom(_, _, _, _)
SafeReplaceFrom(s, i, old_char, new_char) ==
    IF i > Len(s) THEN <<>>
    ELSE <<IF s[i] = old_char /\ is_safe_to_correct(s, i)
           THEN new_char ELSE s[i]>>
             \o SafeReplaceFrom(s, i + 1, old_char, new_char)

RECURSIVE SafeCorrectionLoop(_, _)
SafeCorrectionLoop(k, cleaned) ==
    IF k > Len(safe_corrections) THEN cleaned
    ELSE LET next == SafeReplaceFrom(cleaned, 1, safe_corrections[k][1],
                                     safe_corrections[k][2])
         IN  AfterComputing(next, SafeCorrectionLoop(k + 1, next))

RECURSIVE SafePatternLoop(_, _)
SafePatternLoop(k, cleaned) ==
    IF k > Len(safe_patterns) THEN cleaned
    ELSE LET next == RuleSub(safe_patterns[k], cleaned)
         IN  AfterComputing(next, SafePatternLoop(k + 1, next))

\* clean_paragraph_conservatively with the safe patterns applied before the
\* character corrections
clean_paragraph_patterns_first(s) ==
    IF Strip(s) = <<>> THEN s
    ELSE Strip(SafeCorrectionLoop(1, SafePatternLoop(1, s)))

clean_paragraph_conservatively(s) ==
    IF Strip(s) = <<>> THEN s
    ELSE Strip(SafePatternLoop(1, SafeCorrectionLoop(1, s)))

(***************************************************************************)
(* OdiaTextCleaner: the line filter.                                       *)
(***************************************************************************)
\* the class [\d\s\।\.\,\;\:\!\?\(\)\-]
NumericPunct ==
    DecimalDigits \cup Whitespace \cup {2404, 46, 44, 59, 58, 33, 63, 40, 41, 45}

\* str.split('\n')
RECURSIVE SplitLines(_)
SplitLines(s) ==
    IF \A j \in 1..Len(s) : s[j] # 10 THEN <<s>>
    ELSE LET i == CHOOSE j \in 1..Len(s) :
                      s[j] = 10 /\ \A h \in 1..(j - 1) : s[h] # 10
         IN  <<Slice(s, 1, i - 1)>> \o SplitLines(Slice(s, i + 1, Len(s)))

\* '\n'.join(lines)
RECURSIVE JoinLines(_)
JoinLines(lines) ==
    IF lines = <<>> THEN <<>>
    ELSE IF Len(lines) = 1 THEN lines[1]
    ELSE lines[1] \o <<10>> \o JoinLines(Tail(lines))

\* sum(1 for char in line if 0x0B00 <= ord(char) <= 0x0B7F)
OdiaCharCount(line) ==
    Cardinality({j \in 1..Len(line) : line[j] \in OdiaBlock})

\* re.match(r'^[\d\s\।\.\,\;\:\!\?\(\)\-]+$', line) on a stripped line
PureNumericLine(line) ==
    /\ Len(line) >= 1
    /\ \A j \in 1..Len(line) : line[j] \in NumericPunct

\* odia_ratio > 0.2 for odia_ratio = odia_chars / total_chars.  The float
\* quotient is correctly rounded and 0.2 is the double nearest to 1/5, so
\* for lines of any realistic length the comparison is that of the exact
\* fractions: 5 * odia_chars > total_chars.
OdiaRatioAboveThreshold(line) == 5 * OdiaCharCount(line) > Len(line)

\* the keep condition with >= in place of >
KeepLineAtThreshold(line) ==
    \/ 5 * OdiaCharCount(line) >= Len(line)
    \/ PureNumericLine(line)
    \/ Len(line) < 5

\* the keep condition without the short-line exemption
KeepLineNoShort(line) ==
    \/ OdiaRatioAboveThreshold(line)
    \/ PureNumericLine(line)

\* the condition under which clean_line_level keeps a stripped, non-empty line
KeepLine(line) ==
    \/ OdiaRatioAboveThreshold(line)
    \/ PureNumericLine(line)
    \/ Len(line) < 5

\* the loop of clean_line_level over the lines from index k on; acc is
\* [lines, dropped]
RECURSIVE LineLoop(_, _, _)
LineLoop(lines, k, acc) ==
    IF k > Len(lines) THEN acc
    ELSE LET line == Strip(lines[k])
             next == IF line = <<>> THEN acc
                     ELSE IF KeepLine(line)
                     THEN [lines   |-> Append(acc.lines, line),
                           dropped |-> acc.dropped]
                     ELSE [lines   |-> acc.lines,
                           dropped |-> acc.dropped + 1]
         IN  AfterComputing(next, LineLoop(lines, k + 1, next))

\* clean_line_level: the text returned and the number of lines dropped,
\* each of which adds one to corrections_made
clean_line_level(s) ==
    LET r == LineLoop(SplitLines(s), 1, [lines |-> <<>>, dropped |-> 0])
    IN  [text |-> JoinLines(r.lines), count |-> r.dropped]

(***************************************************************************)
(* OdiaTextCleaner: the character stage, the pattern stage, the spacing    *)
(* stage and clean_text.  Every operation returns the text and the number  *)
(* it adds to corrections_made.                                            *)
(***************************************************************************)
\* the keys of char_corrections, in the dictionary's insertion order; every
\* one of them is replaced by the empty string
char_corrections ==
  << 215, 169, 8364, 8224, 165, 163, 96, 161, 167, 166, 176, 8226, 8249,
     8250, 8243, 8242, 8225, 8240, 8241, 92, 47, 124, 126, 64, 35, 36, 37,
     94, 38, 42, 43, 61, 60, 62, 91, 93, 123, 125 >>

\* OdiaTextCleaner.pattern_corrections, in list order
cleaner_pattern_corrections ==
  << "standalone_letter",      \* \b[a-zA-Z]\b              -> empty
     "digits_then_symbols",    \* \d+[€©×†¥£]+\d*           -> empty
     "symbols_then_digits",    \* [€©×†¥£]+\d+              -> empty
     "whitespace_run",         \* \s+                       -> space
     "symbol_line",            \* ^[€©×...]+$               -> empty
     "corrupted_number",       \* ୮+\w*                     -> empty
     "fraction_with_symbol",   \* \d+/\d+€                  -> empty
     "symbol_cluster",         \* [€©×†¥£§¦°•‹›″′‡‰‱]+        -> empty
     "html_entity",            \* &\w+;                     -> empty
     "garbage_brackets",       \* \([^ଅ-ହ\s\d।.,;:!?-]*\)    -> empty
     "standalone_symbol",      \* [\\/|~@#$%^&*+=<>[\]{}]   -> empty
     "space_before_sentence_punctuation",  \* \s+([।.,;:!?]) -> \1
     "punctuation_pair" >>     \* ([।.,;:!?])\s*([।.,;:!?]) -> \1 space \2

\* preserve_chars
preserve_chars ==
    {32, 10, 9, 2404, 2405, 46, 44, 59, 58, 33, 63, 40, 41, 45, 8211, 8212}
        \cup (2534..2543) \cup (48..57)

\* valid_odia_range and valid_devanagari_range
valid_odia_range == 2816..2943
valid_devanagari_range == 2304..2431

is_valid_character(c) ==
    \/ c \in preserve_chars
    \/ c \in valid_odia_range
    \/ c \in valid_devanagari_range

\* the first loop of clean_character_level over entries k.. of the table
RECURSIVE CharCorrectionLoop(_, _)
CharCorrectionLoop(k, acc) ==
    IF k > Len(char_corrections) THEN acc
    ELSE LET Replaced(wrong_char) ==
                 IF \E j \in 1..Len(acc.text) : acc.text[j] = wrong_char
                 THEN [text  |-> StrReplace(acc.text, <<wrong_char>>, <<>>),
                       count |-> acc.count + 1]
                 ELSE acc
             Continue(next) ==
                 AfterComputing(next, CharCorrectionLoop(k + 1, next))
         IN  Continue(Replaced(char_corrections[k]))

\* the second loop of clean_character_level left out: every character kept
AllChars(s) == s

\* the second loop of clean_character_level: the valid characters of s
RECURSIVE ValidChars(_)
ValidChars(s) ==
    IF s = <<>> THEN <<>>
    ELSE (IF is_valid_character(Head(s)) THEN <<Head(s)>> ELSE <<>>)
            \o ValidChars(Tail(s))

clean_character_level(s) ==
    LET Filtered(c) ==
          AfterComputing(c,
            [text  |-> ValidChars(c.text),
             count |-> c.count + Cardinality({j \in 1..Len(c.text) :
                                      ~is_valid_character(c.text[j])})])
    IN  Filtered(CharCorrectionLoop(1, [text |-> s, count |-> 0]))

\* the loop of clean_pattern_level over patterns k.. of the list: a pattern
\* that changes the text counts once
RECURSIVE CleanerPatternLoop(_, _)
CleanerPatternLoop(k, acc) ==
    IF k > Len(cleaner_pattern_corrections) THEN acc
    ELSE LET Counted(new) ==
                 [text  |-> new,
                  count |-> IF new # acc.text THEN acc.count + 1
                            ELSE acc.count]
             Continue(next) ==
                 AfterComputing(next, CleanerPatternLoop(k + 1, next))
         IN  Continue(Counted(RuleSub(cleaner_pattern_corrections[k],
                                      acc.text)))

clean_pattern_level(s) == CleanerPatternLoop(1, [text |-> s, count |-> 0])

\* [line.strip() for line in lines], without the lines that become empty
RECURSIVE StripLines(_)
StripLines(lines) ==
    IF lines = <<>> THEN <<>>
    ELSE (IF Strip(Head(lines)) = <<>> THEN <<>> ELSE <<Strip(Head(lines))>>)
            \o StripLines(Tail(lines))

normalize_spacing(s) ==
    LET spaces   == RuleSub("space_run", s)
        newlines == RuleSub("newline_run", spaces)
    IN  Strip(JoinLines(StripLines(SplitLines(newlines))))

\* the four stages of clean_text on a text that is not blank
clean_stages(s) ==
    LET AfterLines(c, p, l) ==
          AfterComputing(l,
            [text   |-> normalize_spacing(l.text),
             count  |-> c.count + p.count + l.count,
             stages |-> <<"clean_character_level", "clean_pattern_level",
                          "clean_line_level", "normalize_spacing">>])
        AfterPatterns(c, p) ==
            AfterComputing(p, AfterLines(c, p, clean_line_level(p.text)))
        AfterCharacters(c) ==
            AfterComputing(c, AfterPatterns(c, clean_pattern_level(c.text)))
    IN  AfterCharacters(clean_character_level(s))

\* clean_text with the guard for blank text left out
clean_text_unguarded(s) == clean_stages(s)

\* clean_text: the text returned, the number added to corrections_made and
\* the stages that ran
clean_text(s) ==
    IF Strip(s) = <<>>
    THEN [text |-> <<>>, count |-> 0, stages |-> <<>>]
    ELSE clean_stages(s)

\* clean_file on a file [readable, content, writable]: whether it returns
\* True, the number clean_text added to corrections_made, and the text
\* written.  A file fails when reading raises, when its text is blank, when
\* the cleaned text is blank, or when creating or writing the output raises.
clean_file(file) ==
    IF ~file.readable THEN [ok |-> FALSE, count |-> 0, text |-> <<>>]
    ELSE IF Strip(file.content) = <<>>
    THEN [ok |-> FALSE, count |-> 0, text |-> <<>>]
    ELSE LET Written(r) ==
                 IF Strip(r.text) = <<>>
                 THEN [ok |-> FALSE, count |-> r.count, text |-> <<>>]
                 ELSE IF ~file.writable
                 THEN [ok |-> FALSE, count |-> r.count, text |-> <<>>]
                 ELSE [ok |-> TRUE, count |-> r.count, text |-> r.text]
         IN  Written(clean_text(file.content))

(***************************************************************************)
(* Word documents.  A document is the sequence of the texts of its         *)
(* paragraphs; a cleaner loads it, rewrites paragraphs in place and saves  *)
(* it, the analyzer loads it and returns a report.                         *)
(***************************************************************************)
\* correct_document: a non-blank paragraph is replaced by its corrected
\* text when that differs (para.clear(); para.add_run(corrected_text))
RECURSIVE CorrectedParagraphs(_)
CorrectedParagraphs(d) ==
    IF d = <<>> THEN <<>>
    ELSE LET Corrected(original) ==
                 IF Strip(original) = <<>> THEN original
                 ELSE CorrectParagraph(original).text
             Continue(new) ==
                 AfterComputing(new, <<new>> \o CorrectedParagraphs(Tail(d)))
         IN  Continue(Corrected(Head(d)))

\* the total_corrections of correct_document's statistics
RECURSIVE TotalCorrections(_)
TotalCorrections(d) ==
    IF d = <<>> THEN 0
    ELSE (IF Strip(Head(d)) = <<>> THEN 0 ELSE CorrectParagraph(Head(d)).count)
            + TotalCorrections(Tail(d))

\* clean_document rebuilding the document from the paragraphs it cleaned:
\* the blank paragraphs are lost and the later ones move up
RECURSIVE CleanedParagraphsOnly(_)
CleanedParagraphsOnly(d) ==
    IF d = <<>> THEN <<>>
    ELSE (IF Strip(Head(d)) = <<>> THEN <<>>
          ELSE <<clean_paragraph_conservatively(Head(d))>>)
            \o CleanedParagraphsOnly(Tail(d))

\* clean_document: a non-blank paragraph is assigned its cleaned text when
\* that differs (paragraph.text = cleaned_text)
RECURSIVE ConservativelyCleanedParagraphs(_)
ConservativelyCleanedParagraphs(d) ==
    IF d = <<>> THEN <<>>
    ELSE LET original == Head(d)
             new == IF Strip(original) = <<>> THEN original
                    ELSE clean_paragraph_conservatively(original)
         IN  <<new>> \o ConservativelyCleanedParagraphs(Tail(d))

(***************************************************************************)
(* AdvancedErrorPatternAnalyzer.                                           *)
(***************************************************************************)
\* text_content: para.text.strip() of every non-blank paragraph
RECURSIVE text_content(_)
text_content(d) ==
    IF d = <<>> THEN <<>>
    ELSE (IF Strip(Head(d)) = <<>> THEN <<>> ELSE <<Strip(Head(d))>>)
            \o text_content(Tail(d))

\* full_text = '\n'.join(text_content)
full_text(d) == JoinLines(text_content(d))

\* analyze_word_breaks: the matches of the broken-word pattern, which is
\* the pattern of the join rule
total_broken_words(s) == Len(RuleFinditer("join_separated_odia", s))

\* the analyzer's loop over doc.paragraphs with the stripped text written
\* back into each non-blank paragraph
ParagraphsStrippedInPlace(d) ==
    [k \in 1..Len(d) |-> IF Strip(d[k]) = <<>> THEN d[k] ELSE Strip(d[k])]

\* the paragraphs of the document after the analyzer's loop over
\* doc.paragraphs, which reads para.text and assigns nothing
ParagraphsAfterAnalysis(d) == d

\* category_errors[:20]
ExamplesKept == 20
\* get_context(..., context_size=30)
ContextSize == 30
\* char_freq.most_common(100)
FrequentCharacters == 100
\* Counter(matches).most_common(20)
CommonBreaksKept == 20
\* eng_count > 10
SubstitutionMinimum == 10
\* eng_count > 50, matches > 50
HighConfidenceMinimum == 50
\* matches > 5
PatternMinimum == 5
\* word_breaks[:10]
ReviewedBreaks == 10
\* count > 5
ReviewBreakMinimum == 5
\* freq > 100
ReviewFrequencyMinimum == 100
\* data['examples'][:5]
RecommendationExamples == 5

\* error_patterns, in the dictionary's insertion order
error_patterns ==
  << [category |-> "broken_words",
      patterns |-> <<"broken_odia_odia", "broken_odia_sign",
                     "broken_sign_odia">>],
     [category |-> "incorrect_halanta",
      patterns |-> <<"halanta_before_space", "halanta_before_odia">>],
     [category |-> "english_intrusions",
      patterns |-> <<"english_word", "standalone_letter">>],
     [category |-> "number_artifacts",
      patterns |-> <<"standalone_number", "digit_before_odia",
                     "digit_after_odia">>],
     [category |-> "symbol_artifacts",
      patterns |-> <<"symbol_artifacts", "multiple_underscores",
                     "multiple_pipes">>],
     [category |-> "punctuation_errors",
      patterns |-> <<"multiple_danda", "multiple_commas",
                     "space_before_punctuation">>],
     [category |-> "spacing_errors",
      patterns |-> <<"multiple_spaces", "leading_whitespace",
                     "trailing_whitespace">>] >>

\* character_confusions, in the dictionary's insertion order: the symbol
\* and its suggested replacements
character_confusions ==
  << <<97, <<<<2821>>, <<2878>>>>>>, <<101, <<<<2831>>, <<2887>>>>>>,
     <<105, <<<<2823>>, <<2879>>>>>>, <<111, <<<<2835>>, <<2891>>>>>>,
     <<117, <<<<2825>>, <<2881>>>>>>, <<99, <<<<2842>>, <<2843>>>>>>,
     <<103, <<<<2839>>, <<2840>>>>>>, <<116, <<<<2852>>, <<2847>>>>>>,
     <<100, <<<<2854>>, <<2849>>>>>>, <<110, <<<<2856>>, <<2851>>>>>>,
     <<112, <<<<2858>>, <<2859>>>>>>, <<98, <<<<2860>>, <<2861>>>>>>,
     <<109, <<<<2862>>>>>>, <<114, <<<<2864>>>>>>, <<108, <<<<2866>>>>>>,
     <<115, <<<<2872>>, <<2870>>, <<2871>>>>>>, <<104, <<<<2873>>>>>>,
     <<48, <<<<2918>>, <<2835>>>>>>, <<49, <<<<2919>>, <<2404>>>>>>,
     <<50, <<<<2920>>>>>>, <<51, <<<<2921>>>>>>, <<52, <<<<2922>>>>>>,
     <<53, <<<<2923>>>>>>, <<54, <<<<2924>>>>>>, <<55, <<<<2925>>>>>>,
     <<56, <<<<2926>>>>>>, <<57, <<<<2927>>>>>>,
     <<124, <<<<2404>>, <<2919>>>>>>, <<95, <<<<2821>>, <<>>>>>>,
     <<45, <<<<2893>>, <<>>>>>> >>

\* common_patterns of detect_systematic_errors, in list order
common_patterns ==
  << "standalone_number",      \* \b([0-9]+)\b
     "broken_odia_sign",       \* ([ଅ-ୱ])\s+([ାିୀୁୂୃେୈୋୌ])
     "halanta_before_space",   \* ([ଅ-ୱ])୍\s
     "pipe" >>                 \* \|

\* the character sets of setup_odia_character_analysis
odia_consonants ==
    (2837..2856) \cup (2858..2864) \cup {2866} \cup (2870..2873)
        \cup {2876, 2893}
odia_vowels == (2821..2827) \cup {2831, 2832, 2835, 2836}
odia_vowel_signs == VowelSigns
odia_numbers == 2918..2927
odia_punctuation == {2404, 2405}

is_valid_odia_char(c) ==
    \/ c \in odia_consonants
    \/ c \in odia_vowels
    \/ c \in odia_vowel_signs
    \/ c \in odia_numbers
    \/ c \in odia_punctuation
    \/ c \in {32, 10, 9, 46, 44, 59, 58, 33, 63, 40, 41, 91, 93, 123, 125,
              34, 39, 45}

Min(a, b) == IF a <= b THEN a ELSE b
Max(a, b) == IF a >= b THEN a ELSE b

\* seq[:n]
Take(seq, n) == SubSeq(seq, 1, Min(n, Len(seq)))

\* get_context for the match s[first..last]: up to ContextSize characters
\* on each side, the match between square brackets
get_context(s, first, last) ==
    Slice(s, Max(1, first - ContextSize), first - 1)
        \o <<91>> \o SubSeq(s, first, last) \o <<93>>
        \o Slice(s, last + 1, Min(Len(s), last + ContextSize))

\* the matches of patterns k.. of a category, pattern after pattern, each
\* with match.group(), match.start(), match.end() and its context
RECURSIVE CategoryErrorsFrom(_, _, _)
CategoryErrorsFrom(patterns, k, s) ==
    IF k > Len(patterns) THEN <<>>
    ELSE LET Errors(found) ==
                 [j \in 1..Len(found) |->
                     [match   |-> SubSeq(s, found[j].first, found[j].last),
                      start   |-> found[j].first - 1,
                      end     |-> found[j].last,
                      context |-> get_context(s, found[j].first,
                                              found[j].last)]]
             Continue(errors) ==
                 AfterComputing(errors,
                     errors \o CategoryErrorsFrom(patterns, k + 1, s))
         IN  Continue(Errors(RuleFinditer(patterns[k], s)))

\* the examples kept with every match of the category instead of the first
\* ExamplesKept
AllExamples(category_errors) == category_errors

\* category_errors[:20]
Examples(category_errors) == Take(category_errors, ExamplesKept)

\* analysis['error_categories'], in the order of error_patterns
error_categories(s) ==
    [k \in 1..Len(error_patterns) |->
        LET Entry(category_errors) ==
                [category |-> error_patterns[k].category,
                 count    |-> Len(category_errors),
                 examples |-> Examples(category_errors)]
        IN  Entry(CategoryErrorsFrom(error_patterns[k].patterns, 1, s))]

Occurrences(items, x) == Cardinality({j \in 1..Len(items) : items[j] = x})

\* the elements of Counter(items) with their counts, in the order in which
\* the counter first meets them
Counter(items) ==
    LET Counted(firsts) ==
            [k \in 1..Cardinality(firsts) |->
                LET Element(j) == <<items[j], Occurrences(items, items[j])>>
                IN  Element(CHOOSE j \in firsts :
                                Cardinality({h \in firsts : h <= j}) = k)]
    IN  Counted({j \in 1..Len(items) :
                    \A h \in 1..(j - 1) : items[h] # items[j]})

\* Counter(items).most_common(n): the n largest counts first, elements of
\* equal count in the order of the counter
most_common(items, n) ==
    LET Sorted(counted) ==
            LET Place(j) == 1 + Cardinality({h \in 1..Len(counted) :
                                \/ counted[h][2] > counted[j][2]
                                \/ counted[h][2] = counted[j][2] /\ h < j})
            IN  [k \in 1..Min(n, Len(counted)) |->
                    counted[CHOOSE j \in 1..Len(counted) : Place(j) = k]]
    IN  Sorted(Counter(items))

\* analyze_word_breaks: the matches of the broken-word pattern as pairs
\* (char1, char2), the commonest pairs and the kinds of break
analyze_word_breaks(s) ==
    LET Kind(m) == IF m[1] \in odia_consonants /\ m[2] \in odia_consonants
                   THEN "consonant_consonant"
                   ELSE IF m[1] \in odia_consonants /\ m[2] \in odia_vowel_signs
                   THEN "consonant_vowel_sign"
                   ELSE IF m[1] \in odia_vowels /\ m[2] \in odia_consonants
                   THEN "vowel_consonant"
                   ELSE "none"
        Breaks(matches, kind) ==
            Cardinality({j \in 1..Len(matches) : Kind(matches[j]) = kind})
        Analysis(matches) ==
            [total_broken_words |-> total_broken_words(s),
             common_breaks |-> most_common(matches, CommonBreaksKept),
             break_types |->
                [consonant_consonant  |-> Breaks(matches, "consonant_consonant"),
                 consonant_vowel_sign |-> Breaks(matches, "consonant_vowel_sign"),
                 vowel_consonant      |-> Breaks(matches, "vowel_consonant")]]
        Groups(found) ==
            [j \in 1..Len(found) |-> <<s[found[j].first], s[found[j].last]>>]
    IN  Analysis(Groups(RuleFinditer("join_separated_odia", s)))

\* the confidence with the bound included
ConfidenceFromMinimum(eng_count) ==
    IF eng_count >= HighConfidenceMinimum THEN "high" ELSE "medium"

\* the confidence of a substitution: 'high' above HighConfidenceMinimum
Confidence(eng_count) ==
    IF eng_count > HighConfidenceMinimum THEN "high" ELSE "medium"

\* whether a confusable character occurring eng_count times is reported
IsSystematic(eng_count) == eng_count > SubstitutionMinimum

\* the entries of character_substitutions for the confusions k.., in the
\* order of character_confusions
RECURSIVE CharacterSubstitutionsFrom(_, _)
CharacterSubstitutionsFrom(k, s) ==
    IF k > Len(character_confusions) THEN <<>>
    ELSE LET Entry(eng_char, odia_chars, eng_count) ==
                 IF IsSystematic(eng_count)
                 THEN << [character |-> eng_char,
                          count |-> eng_count,
                          suggested_replacements |-> odia_chars,
                          confidence |-> Confidence(eng_count)] >>
                 ELSE <<>>
         IN  Entry(character_confusions[k][1], character_confusions[k][2],
                   Occurrences(s, character_confusions[k][1]))
                 \o CharacterSubstitutionsFrom(k + 1, s)

\* the entries of pattern_replacements for the common patterns k..
RECURSIVE PatternReplacementsFrom(_, _)
PatternReplacementsFrom(k, s) ==
    IF k > Len(common_patterns) THEN <<>>
    ELSE LET Entry(matches) ==
                 IF matches > PatternMinimum
                 THEN << [pattern |-> common_patterns[k],
                          count |-> matches,
                          priority |->
                              IF matches > HighConfidenceMinimum
                              THEN "high" ELSE "medium"] >>
                 ELSE <<>>
         IN  Entry(Len(RuleFinditer(common_patterns[k], s)))
                 \o PatternReplacementsFrom(k + 1, s)

\* detect_systematic_errors; frequency_anomalies is never filled
detect_systematic_errors(s) ==
    [character_substitutions |-> CharacterSubstitutionsFrom(1, s),
     pattern_replacements    |-> PatternReplacementsFrom(1, s),
     frequency_anomalies     |-> <<>>]

\* [ex['match'] for ex in data['examples'][:5]]
ExampleMatches(examples) ==
    [j \in 1..Min(RecommendationExamples, Len(examples)) |->
        examples[j].match]

\* the recommendations of generate_corrections for the categories k..
RECURSIVE CategoryCorrectionsFrom(_, _)
CategoryCorrectionsFrom(categories, k) ==
    IF k > Len(categories) THEN <<>>
    ELSE LET Recommend(data, type) ==
                 << [type |-> type, priority |-> "high",
                     subject |-> data.category, count |-> data.count,
                     examples |-> ExampleMatches(data.examples)] >>
             Entry(data) ==
                 IF data.count > 0
                 THEN IF data.category = "broken_words"
                      THEN Recommend(data, "pattern_replacement")
                      ELSE IF data.category = "number_artifacts"
                      THEN Recommend(data, "character_replacement")
                      ELSE IF data.category = "symbol_artifacts"
                      THEN Recommend(data, "symbol_removal")
                      ELSE <<>>
                 ELSE <<>>
         IN  Entry(categories[k]) \o CategoryCorrectionsFrom(categories, k + 1)

\* the recommendations of generate_corrections for the substitutions k..
RECURSIVE SubstitutionCorrectionsFrom(_, _)
SubstitutionCorrectionsFrom(substitutions, k) ==
    IF k > Len(substitutions) THEN <<>>
    ELSE LET Entry(details) ==
                 IF details.confidence = "high"
                 THEN << [type |-> "systematic_replacement",
                          priority |-> "high",
                          subject |-> <<details.character>>,
                          count |-> details.count,
                          examples |-> <<>>] >>
                 ELSE <<>>
         IN  Entry(substitutions[k])
                 \o SubstitutionCorrectionsFrom(substitutions, k + 1)

\* generate_corrections: a recommendation names what it is about in
\* subject, the category or the substituted character
generate_corrections(categories, systematic) ==
    CategoryCorrectionsFrom(categories, 1)
        \o SubstitutionCorrectionsFrom(systematic.character_substitutions, 1)

\* the word breaks generate_manual_review_items looks at
ReviewedWordBreaks(common_breaks) == Take(common_breaks, ReviewedBreaks)

\* the 'word_break' items for the word breaks k..
RECURSIVE WordBreakItemsFrom(_, _)
WordBreakItemsFrom(word_breaks, k) ==
    IF k > Len(word_breaks) THEN <<>>
    ELSE (IF word_breaks[k][2] > ReviewBreakMinimum
          THEN << [type |-> "word_break", priority |-> "medium",
                   pattern |-> word_breaks[k][1],
                   count |-> word_breaks[k][2]] >>
          ELSE <<>>)
             \o WordBreakItemsFrom(word_breaks, k + 1)

\* the 'character_review' items for the frequent characters k..
RECURSIVE CharacterItemsFrom(_, _)
CharacterItemsFrom(frequency, k) ==
    IF k > Len(frequency) THEN <<>>
    ELSE (IF /\ frequency[k][2] > ReviewFrequencyMinimum
             /\ ~is_valid_odia_char(frequency[k][1])
          THEN << [type |-> "character_review", priority |-> "high",
                   pattern |-> <<frequency[k][1]>>,
                   count |-> frequency[k][2]] >>
          ELSE <<>>)
             \o CharacterItemsFrom(frequency, k + 1)

\* generate_manual_review_items
generate_manual_review_items(word_break_analysis, character_frequency) ==
    WordBreakItemsFrom(ReviewedWordBreaks(word_break_analysis.common_breaks), 1)
        \o CharacterItemsFrom(character_frequency, 1)

\* the analysis returned by analyze_document_errors
analyze_document_errors(d) ==
    LET Report(s, categories, frequency, breaks, systematic) ==
            [total_paragraphs   |-> Len(text_content(d)),
             total_characters   |-> Len(s),
             error_categories   |-> categories,
             character_frequency |-> frequency,
             word_break_analysis |-> breaks,
             systematic_errors  |-> systematic,
             correction_recommendations |->
                 generate_corrections(categories, systematic),
             manual_review_items |->
                 generate_manual_review_items(breaks, frequency)]
        Analysis(s) ==
            Report(s, error_categories(s),
                   most_common(s, FrequentCharacters),
                   analyze_word_breaks(s), detect_systematic_errors(s))
    IN  Analysis(full_text(d))

\* the value returned when the document cannot be read
EmptyReport == [returned |-> "{}"]

(***************************************************************************)
(* The checked inputs.                                                     *)
(***************************************************************************)
\* all texts of length at most n over the alphabet A
Texts(A, n) == UNION {[1..k -> A] : k \in 0..n}

\* one character of every class the pattern rules tell apart: an Odia
\* consonant, a vowel sign, the halanta, space, newline, danda, comma, a
\* symbol artifact, the underscore, an ASCII digit and a Latin letter
FullAlphabet == {2837, 2878, 2893, 32, 10, 2404, 44, 8364, 95, 49, 97}

\* broken Odia words: consonant, vowel sign, halanta, space
ChainAlphabet == {2837, 2878, 2893, 32}

\* the independent Odia letters (consonants and vowels) of the block
OdiaBaseLetters ==
    (2821..2828) \cup (2831..2832) \cup (2835..2856) \cup (2858..2864)
        \cup (2866..2867) \cup (2869..2873) \cup (2908..2909)
        \cup (2911..2913) \cup {2929}

\* a base letter, a run of spaces and newlines, a vowel sign
MaxWs == 2
JoinInputs ==
    {<<x>> \o w \o <<y>> :
        x \in OdiaBaseLetters,
        w \in Texts({32, 10}, MaxWs) \ {<<>>},
        y \in VowelSigns}

\* n Odia characters with a single space between neighbours
RECURSIVE Spaced(_)
Spaced(letters) ==
    IF Len(letters) <= 1 THEN letters
    ELSE <<Head(letters), 32>> \o Spaced(Tail(letters))

\* a spaced chain of three or more consonants and vowel signs, alone or
\* followed by a space and a run of ASCII digits
MaxChainLetters == 4
DigitRuns == {<<>>, <<32, 49>>, <<32, 49, 50>>, <<32, 49, 50, 51>>}
SpacedChains ==
    {Spaced(l) : l \in UNION {[1..n -> {2837, 2878}] : n \in 3..MaxChainLetters}}
ChainInputs == {c \o d : c \in SpacedChains, d \in DigitRuns}

\* the letters of the vocabulary entries for roga (ରୋଗ) and rasa (ରସ), and
\* the halanta
MaxVocab == 5
VocabAlphabet == {2864, 2891, 2839, 2872, 2893}
VocabInputs == Texts(VocabAlphabet, MaxVocab)

RuleInputs == Texts(FullAlphabet, MaxLen) \cup Texts(ChainAlphabet, MaxChain)

\* for the conservative cleaner: an Odia vowel, three mapped symbols (to a
\* vowel, a consonant and the danda) and the space; and texts that exercise
\* the spacing patterns
MaxSafeLen == 5
MaxSpacingLen == 4
SymbolAlphabet == {2821, 8364, 8482, 169, 32}
SpacingAlphabet == {2821, 169, 32, 2404, 10}
ConservativeInputs ==
    Texts(SymbolAlphabet, MaxSafeLen) \cup Texts(SpacingAlphabet, MaxSpacingLen)

\* for the line filter: single lines over an Odia consonant, a Latin
\* letter, a digit and the space; and texts of several lines
MaxLineLen == 5
MaxMultiLen == 7
LineAlphabet == {2837, 97, 49, 32}
MultiLineAlphabet == {2837, 97, 10}
LineInputs ==
    Texts(LineAlphabet, MaxLineLen) \cup Texts(MultiLineAlphabet, MaxMultiLen)

\* documents: up to MaxParas paragraphs, each an empty or blank paragraph,
\* a broken word, a paragraph with leading space, a symbol between Odia
\* vowels, or a digit
MaxParas == 2
ParaSamples ==
    { <<>>, <<32>>, <<2837, 32, 2878>>, <<32, 2837>>,
      <<2821, 8364, 2821>>, <<49>> }
Documents == UNION {[1..n -> ParaSamples] : n \in 0..MaxParas}

\* units of text for the cleaners: blank and non-blank texts over the space,
\* the newline, the tab, an Odia consonant and a symbol the cleaner removes
MaxUnitLen == 3
UnitAlphabet == {32, 10, 9, 2837, 215}
UnitInputs == Texts(UnitAlphabet, MaxUnitLen)

\* directories for clean_directory: up to MaxFiles files, each unreadable,
\* blank, cleaned to nothing, clean already, or cleaned with corrections,
\* the last two with an output that can or cannot be written
MaxFiles == 2
FileSamples ==
    { [readable |-> FALSE, content |-> <<>>, writable |-> TRUE],
      [readable |-> TRUE, content |-> <<32>>, writable |-> TRUE],
      [readable |-> TRUE, content |-> <<215>>, writable |-> TRUE],
      [readable |-> TRUE, content |-> <<2837>>, writable |-> TRUE],
      [readable |-> TRUE, content |-> <<2837>>, writable |-> FALSE],
      [readable |-> TRUE, content |-> <<2837, 215, 32, 32, 2837>>,
       writable |-> TRUE] }
Directories == UNION {[1..n -> FileSamples] : n \in 0..MaxFiles}

\* the workers that share one cleaner, and the units they clean: a blank
\* unit, a clean unit, and units with one, two and three corrections
MaxWorkers == 2
WorkerUnits ==
    { <<32>>, <<2837>>, <<215, 2837>>, <<215, 2837, 169>>,
      <<2837, 215, 32, 32, 2837, 97>> }

\* the documents handed to the analyzer: one paragraph that repeats a unit
\* (a standalone letter; a consonant, a space and a vowel sign; a symbol; a
\* digit and two commas) up to MaxRepeat times, and one paragraph with up
\* to MaxPairs distinct word-break pairs, each occurring as often as
\* the review threshold or once more, and one paragraph of one frequent
\* character
MaxRepeat == 52
MaxPairs == 11
AnalyzerUnits == { <<97, 32>>, <<2837, 32, 2878>>, <<215>>, <<49, 44, 44>> }
\* characters that fill a paragraph as often as the review threshold or
\* once more: the anusvara, the letters LLA and YYA, the letter KA and a
\* Latin letter
FrequentSamples == {2818, 2867, 2911, 2837, 97}
Repeat(u, n) == [j \in 1..(n * Len(u)) |-> u[((j - 1) % Len(u)) + 1]]
PairParagraph(k, m) ==
    [j \in 1..(3 * k * m) |->
        CASE (j - 1) % 3 = 0 -> 2837 + ((j - 1) \div (3 * m))
          [] (j - 1) % 3 = 1 -> 32
          [] OTHER           -> 2878]
AnalyzerDocuments ==
    { <<Repeat(u, n)>> : u \in AnalyzerUnits, n \in 0..MaxRepeat }
        \cup { <<PairParagraph(k, m)>> :
                 k \in 1..MaxPairs,
                 m \in {ReviewBreakMinimum, ReviewBreakMinimum + 1} }
        \cup { <<Repeat(u, n), Repeat(v, n)>> :
                 u \in AnalyzerUnits, v \in AnalyzerUnits, n \in {1, 2} }
        \cup { <<Repeat(<<c>>, n)>> :
                 c \in FrequentSamples,
                 n \in {ReviewFrequencyMinimum, ReviewFrequencyMinimum + 1} }

\* the files handed to the PDF extractor: a path that does not exist, a
\* file pdfplumber cannot open, and files of up to MaxPages pages; a page
\* has the text pdfplumber extracts from it (empty for a scanned page), the
\* text OCR reads from it, and whether its conversion to an image fails
MaxPages == 2
PageSamples ==
    { [text |-> <<32, 2837, 10>>, ocr |-> <<>>,      fails |-> FALSE],
      [text |-> <<>>,             ocr |-> <<2838, 32>>, fails |-> FALSE],
      [text |-> <<32>>,           ocr |-> <<>>,      fails |-> FALSE],
      [text |-> <<>>,             ocr |-> <<2838>>,  fails |-> TRUE] }
PdfFiles ==
    { [exists |-> FALSE, readable |-> FALSE, pages |-> <<>>],
      [exists |-> TRUE,  readable |-> FALSE, pages |-> <<>>] }
        \cup { [exists |-> TRUE, readable |-> TRUE, pages |-> ps] :
                 ps \in UNION {[1..n -> PageSamples] : n \in 0..MaxPages} }
NoRange == <<>>
PageRanges == { NoRange, <<1, 1>>, <<0, MaxPages + 1>>, <<2, 2>> }

TargetedInputs == Texts(FullAlphabet, MaxLen) \cup JoinInputs \cup ChainInputs

(***************************************************************************)
(* TargetedOCRCorrector as a state machine: a text is handed to one of     *)
(* the corrector's operations, which returns the corrected text and the    *)
(* number of corrections.                                                  *)
(***************************************************************************)
Init ==
    /\ text \in TargetedInputs
    /\ result = <<>>
    /\ count = 0
    /\ op = "start"
    /\ corrections_made = 0
    /\ doc = <<>>
    /\ saved = NotSaved
    /\ report = NoReport
    /\ OthersIdle

Return(name, r) ==
    /\ op = "start"
    /\ op' = name
    /\ result' = r.text
    /\ count' = r.count
    /\ UNCHANGED <<text, corrections_made, docVars, otherVars>>

ApplyCharacterCorrections ==
    Return("apply_character_corrections", apply_character_corrections(text))

ApplyPatternCorrections ==
    Return("apply_pattern_corrections", apply_pattern_corrections(text))

ApplyMedicalTermCorrections ==
    Return("apply_medical_term_corrections",
           apply_medical_term_corrections(text))

\* correct_document on a paragraph: blank paragraphs are skipped
CorrectDocumentParagraph ==
    /\ Strip(text) # <<>>
    /\ Return("correct_document", CorrectParagraph(text))

Next ==
    \/ ApplyCharacterCorrections
    \/ ApplyPatternCorrections
    \/ ApplyMedicalTermCorrections
    \/ CorrectDocumentParagraph

Spec == Init /\ [][Next]_vars

(***************************************************************************)
(* One pattern rule on its own: one iteration of the loop of               *)
(* apply_pattern_corrections, on any text.                                 *)
(***************************************************************************)
InitRules ==
    /\ text \in RuleInputs
    /\ result = <<>>
    /\ count = 0
    /\ op = "start"
    /\ corrections_made = 0
    /\ doc = <<>>
    /\ saved = NotSaved
    /\ report = NoReport
    /\ OthersIdle

ApplyRule(k) ==
    Return(pattern_corrections[k],
           [text  |-> RuleSub(pattern_corrections[k], text),
            count |-> RuleFindall(pattern_corrections[k], text)])

NextRules == \E k \in 1..Len(pattern_corrections) : ApplyRule(k)

SpecRules == InitRules /\ [][NextRules]_vars

(***************************************************************************)
(* The vocabulary corrector on its own, on texts built from the letters of *)
(* vocabulary entries.                                                     *)
(***************************************************************************)
InitVocab ==
    /\ text \in VocabInputs
    /\ result = <<>>
    /\ count = 0
    /\ op = "start"
    /\ corrections_made = 0
    /\ doc = <<>>
    /\ saved = NotSaved
    /\ report = NoReport
    /\ OthersIdle

NextVocab == ApplyMedicalTermCorrections

SpecVocab == InitVocab /\ [][NextVocab]_vars

(***************************************************************************)
(* ConservativeCleaner.clean_paragraph_conservatively on a paragraph text. *)
(***************************************************************************)
InitConservative ==
    /\ text \in ConservativeInputs
    /\ result = <<>>
    /\ count = 0
    /\ op = "start"
    /\ corrections_made = 0
    /\ doc = <<>>
    /\ saved = NotSaved
    /\ report = NoReport
    /\ OthersIdle

CleanParagraphConservatively ==
    Return("clean_paragraph_conservatively",
           [text |-> clean_paragraph_conservatively(text), count |-> 0])

NextConservative == CleanParagraphConservatively

SpecConservative == InitConservative /\ [][NextConservative]_vars

(***************************************************************************)
(* OdiaTextCleaner.clean_line_level on a text; the cleaner's counter       *)
(* corrections_made accumulates over the calls.                            *)
(***************************************************************************)
InitLines ==
    /\ text \in LineInputs
    /\ result = <<>>
    /\ count = 0
    /\ op = "start"
    /\ corrections_made = 0
    /\ doc = <<>>
    /\ saved = NotSaved
    /\ report = NoReport
    /\ OthersIdle

CleanLineLevel ==
    /\ op = "start"
    /\ op' = "clean_line_level"
    /\ result' = clean_line_level(text).text
    /\ count' = clean_line_level(text).count
    /\ corrections_made' = corrections_made + clean_line_level(text).count
    /\ UNCHANGED <<text, docVars, otherVars>>

NextLines == CleanLineLevel

SpecLines == InitLines /\ [][NextLines]_vars

(***************************************************************************)
(* Document-level operations: the two document cleaners and the analyzer   *)
(* run, in any order, on a loaded document.                                *)
(***************************************************************************)
InitDoc ==
    /\ text = <<>>
    /\ result = <<>>
    /\ count = 0
    /\ op = "start"
    /\ corrections_made = 0
    /\ doc \in Documents
    /\ saved = NotSaved
    /\ report = NoReport
    /\ OthersIdle

\* TargetedOCRCorrector.correct_document
CorrectDocument ==
    /\ op' = "correct_document"
    /\ LET Written(d) == doc' = d /\ saved' = Saved(d)
       IN  Written(CorrectedParagraphs(doc))
    /\ count' = TotalCorrections(doc)
    /\ UNCHANGED <<text, result, corrections_made, report, otherVars>>

\* ConservativeCleaner.clean_document
CleanDocument ==
    /\ op' = "clean_document"
    /\ LET Written(d) == doc' = d /\ saved' = Saved(d)
       IN  Written(ConservativelyCleanedParagraphs(doc))
    /\ UNCHANGED <<textVars, corrections_made, report, otherVars>>

\* AdvancedErrorPatternAnalyzer.analyze_document_errors
AnalyzeDocumentErrors ==
    /\ op' = "analyze_document_errors"
    /\ report' = analyze_document_errors(doc)
    /\ doc' = ParagraphsAfterAnalysis(doc)
    /\ UNCHANGED <<textVars, corrections_made, saved, otherVars>>

\* analyze_document_errors when the document cannot be read
AnalyzeDocumentErrorsFails ==
    /\ op' = "analyze_document_errors"
    /\ report' = EmptyReport
    /\ UNCHANGED <<textVars, corrections_made, doc, saved, otherVars>>

NextDoc ==
    \/ CorrectDocument
    \/ CleanDocument
    \/ AnalyzeDocumentErrors
    \/ AnalyzeDocumentErrorsFails

SpecDoc == InitDoc /\ [][NextDoc]_vars

(***************************************************************************)
(* Units of text and documents handed to the cleaners: clean_text of       *)
(* OdiaTextCleaner and clean_paragraph_conservatively on a text, the two   *)
(* document cleaners on a loaded document.                                 *)
(***************************************************************************)
InitUnits ==
    /\ \/ text \in UnitInputs /\ doc = <<>>
       \/ text = <<>> /\ doc \in Documents
    /\ result = <<>>
    /\ count = 0
    /\ op = "start"
    /\ corrections_made = 0
    /\ saved = NotSaved
    /\ report = NoReport
    /\ OthersIdle

\* OdiaTextCleaner.clean_text
CleanText ==
    /\ op = "start"
    /\ op' = "clean_text"
    /\ LET Returned(r) ==
               /\ result' = r.text
               /\ count' = r.count
               /\ corrections_made' = corrections_made + r.count
               /\ stages' = r.stages
       IN  Returned(clean_text(text))
    /\ UNCHANGED <<text, docVars, cleaned_files_count, batch, workers, pdf>>

NextUnits ==
    \/ CleanText
    \/ CleanParagraphConservatively
    \/ CorrectDocument
    \/ CleanDocument

SpecUnits == InitUnits /\ [][NextUnits]_vars

(***************************************************************************)
(* OdiaTextCleaner.clean_directory: a run over the files of a directory,   *)
(* one step per file; the cleaner may be used for one run after another.   *)
(***************************************************************************)
InitBatch ==
    /\ text = <<>>
    /\ result = <<>>
    /\ count = 0
    /\ op = "start"
    /\ corrections_made = 0
    /\ doc = <<>>
    /\ saved = NotSaved
    /\ report = NoReport
    /\ OthersIdle

BatchIdle == batch.pc \in {"idle", "returned"}

\* clean_directory when input_path does not exist
CleanDirectoryNotFound ==
    /\ BatchIdle
    /\ op' = "clean_directory"
    /\ batch' = [pc |-> "returned", files |-> <<>>,
                 stats |-> [error |-> "Input directory not found"]]
    /\ UNCHANGED <<textVars, corrections_made, docVars, stages,
                   cleaned_files_count, workers, pdf>>

\* clean_directory when no file matches the pattern: the statistics are
\* returned before the counters are reset
CleanDirectoryNoFiles ==
    /\ BatchIdle
    /\ op' = "clean_directory"
    /\ batch' = [pc |-> "returned", files |-> <<>>,
                 stats |-> [files_found |-> 0, files_cleaned |-> 0,
                            corrections_made |-> 0]]
    /\ UNCHANGED <<textVars, corrections_made, docVars, stages,
                   cleaned_files_count, workers, pdf>>

\* clean_directory up to the loop with the two counter assignments left
\* out
CleanDirectoryStartNoReset ==
    /\ BatchIdle
    /\ \E fs \in Directories \ {<<>>} :
          batch' = [pc |-> "loop", files |-> fs, i |-> 1,
                    successful_files |-> 0, failed_files |-> 0,
                    written |-> <<>>]
    /\ op' = "clean_directory"
    /\ UNCHANGED <<textVars, corrections_made, docVars, stages,
                   cleaned_files_count, workers, pdf>>

\* clean_directory up to the loop: the files are listed, the counters reset
CleanDirectoryStart ==
    /\ BatchIdle
    /\ \E fs \in Directories \ {<<>>} :
          batch' = [pc |-> "loop", files |-> fs, i |-> 1,
                    successful_files |-> 0, failed_files |-> 0,
                    written |-> <<>>]
    /\ op' = "clean_directory"
    /\ cleaned_files_count' = 0
    /\ corrections_made' = 0
    /\ UNCHANGED <<textVars, docVars, stages, workers, pdf>>

\* one iteration of the loop over the files: clean_file and the counters
CleanDirectoryFile ==
    /\ batch.pc = "loop"
    /\ batch.i <= Len(batch.files)
    /\ LET Counted(r) ==
               /\ corrections_made' = corrections_made + r.count
               /\ cleaned_files_count' =
                      IF r.ok THEN cleaned_files_count + 1
                      ELSE cleaned_files_count
               /\ batch' = [batch EXCEPT
                      !.i = @ + 1,
                      !.successful_files = IF r.ok THEN @ + 1 ELSE @,
                      !.failed_files = IF r.ok THEN @ ELSE @ + 1,
                      !.written = IF r.ok
                                  THEN Append(@, <<batch.i, r.text>>)
                                  ELSE @]
       IN  Counted(clean_file(batch.files[batch.i]))
    /\ UNCHANGED <<textVars, op, docVars, stages, workers, pdf>>

\* the end of clean_directory: the statistics are built and returned
CleanDirectoryReturn ==
    /\ batch.pc = "loop"
    /\ batch.i > Len(batch.files)
    /\ batch' = [pc |-> "returned", files |-> batch.files,
                 written |-> batch.written,
                 stats |-> [files_found |-> Len(batch.files),
                            files_cleaned |-> batch.successful_files,
                            files_failed |-> batch.failed_files,
                            corrections_made |-> corrections_made]]
    /\ UNCHANGED <<textVars, op, corrections_made, docVars, stages,
                   cleaned_files_count, workers, pdf>>

NextBatch ==
    \/ CleanDirectoryNotFound
    \/ CleanDirectoryNoFiles
    \/ CleanDirectoryStart
    \/ CleanDirectoryFile
    \/ CleanDirectoryReturn

SpecBatch == InitBatch /\ [][NextBatch]_vars

(***************************************************************************)
(* Workers that clean one unit each with the same OdiaTextCleaner.  The    *)
(* text being cleaned is local to a call; corrections_made is a field of   *)
(* the shared cleaner, and every 'self.corrections_made += 1' reads the    *)
(* field and then writes it, two steps that another worker can come        *)
(* between.                                                                *)
(***************************************************************************)
InitWorkers ==
    /\ text = <<>>
    /\ result = <<>>
    /\ count = 0
    /\ op = "start"
    /\ corrections_made = 0
    /\ doc = <<>>
    /\ saved = NotSaved
    /\ report = NoReport
    /\ stages = <<>>
    /\ cleaned_files_count = 0
    /\ batch = NoBatch
    /\ pdf = NoPdf
    /\ workers \in [1..MaxWorkers ->
                      {[unit |-> u, pc |-> "ready", pending |-> 0,
                        loaded |-> 0, cleaned |-> <<>>] : u \in WorkerUnits}]

\* the worker calls clean_text on its unit: pending is the number of
\* increments of corrections_made the call is going to make
WorkerCall(w) ==
    /\ workers[w].pc = "ready"
    /\ LET Cleaned(r) ==
               workers' = [workers EXCEPT
                   ![w].pending = r.count,
                   ![w].cleaned = r.text,
                   ![w].pc = IF r.count > 0 THEN "load" ELSE "done"]
       IN  Cleaned(clean_text(workers[w].unit))
    /\ op' = "clean_text"
    /\ UNCHANGED <<textVars, corrections_made, docVars, stages,
                   cleaned_files_count, batch, pdf>>

\* the read of self.corrections_made in 'self.corrections_made += 1'
WorkerLoad(w) ==
    /\ workers[w].pc = "load"
    /\ workers' = [workers EXCEPT ![w].loaded = corrections_made,
                                  ![w].pc = "store"]
    /\ UNCHANGED <<textVars, op, corrections_made, docVars, stages,
                   cleaned_files_count, batch, pdf>>

\* the write of self.corrections_made in 'self.corrections_made += 1'
WorkerStore(w) ==
    /\ workers[w].pc = "store"
    /\ corrections_made' = workers[w].loaded + 1
    /\ workers' = [workers EXCEPT
          ![w].pending = @ - 1,
          ![w].pc = IF workers[w].pending > 1 THEN "load" ELSE "done"]
    /\ UNCHANGED <<textVars, op, docVars, stages, cleaned_files_count,
                   batch, pdf>>

NextWorkers ==
    \E w \in 1..MaxWorkers : WorkerCall(w) \/ WorkerLoad(w) \/ WorkerStore(w)

SpecWorkers == InitWorkers /\ [][NextWorkers]_vars

(***************************************************************************)
(* AdvancedErrorPatternAnalyzer on documents long enough for its           *)
(* thresholds and caps.                                                    *)
(***************************************************************************)
InitAnalyzer ==
    /\ text = <<>>
    /\ result = <<>>
    /\ count = 0
    /\ op = "start"
    /\ corrections_made = 0
    /\ doc \in AnalyzerDocuments
    /\ saved = NotSaved
    /\ report = NoReport
    /\ OthersIdle

NextAnalyzer == AnalyzeDocumentErrors \/ AnalyzeDocumentErrorsFails

SpecAnalyzer == InitAnalyzer /\ [][NextAnalyzer]_vars

(***************************************************************************)
(* Properties of TargetedOCRCorrector.                                     *)
(***************************************************************************)
RuleNames == {pattern_corrections[k] : k \in 1..Len(pattern_corrections)}

HasAsciiDigit(s) == \E i \in 1..Len(s) : s[i] \in AsciiDigits

\* a whitespace character somewhere between two Odia letters or vowel signs
OdiaChainChars == OdiaBaseLetters \cup VowelSigns
SpaceInsideOdia(s) ==
    \E i, j, k \in 1..Len(s) :
        /\ i < j /\ j < k
        /\ s[i] \in OdiaChainChars
        /\ s[j] \in Whitespace
        /\ s[k] \in OdiaChainChars

\* C1: every pattern rule is idempotent: applying a rule to its own output
\* changes nothing (under SpecRules, where op is the rule just applied).
C1_RuleIdempotent ==
    op \in RuleNames => RuleSub(op, result) = result

\* C4: for a paragraph that is a chain of three or more Odia characters with
\* single spaces between them (alone or followed by a digit run), the full
\* paragraph pipeline of correct_document leaves no whitespace between any
\* two of the Odia characters.
C4_ChainFullyJoined ==
    (op = "correct_document" /\ text \in ChainInputs)
        => ~SpaceInsideOdia(result)

\* C5: apply_pattern_corrections on a base letter X, one or more whitespace
\* characters and a vowel sign Y returns XY.
C5_BrokenWordJoin ==
    (op = "apply_pattern_corrections" /\ text \in JoinInputs)
        => result = <<text[1], text[Len(text)]>>

\* C5 witness: a pair separated by more than one whitespace character has
\* been joined.
C5_Witness ==
    /\ op = "apply_pattern_corrections"
    /\ text \in JoinInputs
    /\ Len(text) > 3
    /\ result = <<text[1], text[Len(text)]>>

\* C6: after the paragraph pipeline of correct_document no ASCII digit is
\* left: every digit run has become Odia numerals.
C6_NoAsciiDigitLeft ==
    op = "correct_document" => ~HasAsciiDigit(result)

\* C9: apply_medical_term_corrections is idempotent: applied to its own
\* output it returns the same text and counts no correction.
C9_MedicalIdempotent ==
    op = "apply_medical_term_corrections"
        => /\ apply_medical_term_corrections(result).text = result
           /\ apply_medical_term_corrections(result).count = 0

\* a whitespace character immediately followed by a punctuation mark of the
\* class [।,;:!?]
SpaceBeforePunct(s) ==
    \E i \in 1..(Len(s) - 1) :
        s[i] \in Whitespace /\ s[i + 1] \in ClausePunct

\* C20: in the text returned by apply_pattern_corrections no whitespace
\* character is immediately followed by danda, comma, semicolon, colon,
\* exclamation mark or question mark.
C20_NoSpaceBeforePunct ==
    op = "apply_pattern_corrections" => ~SpaceBeforePunct(result)

(***************************************************************************)
(* Properties of ConservativeCleaner.                                      *)
(*                                                                         *)
(* The character corrections keep every character at its index; the        *)
(* patterns and strip() only delete whitespace.  The place of a character  *)
(* in the output is therefore its rank among the non-whitespace            *)
(* characters.                                                             *)
(***************************************************************************)
SafeSymbols == {safe_corrections[k][1] : k \in 1..Len(safe_corrections)}

SafeTarget(c) ==
    LET k == CHOOSE j \in 1..Len(safe_corrections) : safe_corrections[j][1] = c
    IN  safe_corrections[k][2]

\* the number of non-whitespace characters among s[1..i]
Rank(s, i) == Cardinality({j \in 1..i : s[j] \notin Whitespace})

RECURSIVE NonWs(_)
NonWs(s) ==
    IF s = <<>> THEN <<>>
    ELSE (IF Head(s) \in Whitespace THEN <<>> ELSE <<Head(s)>>)
            \o NonWs(Tail(s))

\* the character of the output at the place of input index i
OutputAtPlace(i) == At(NonWs(result), Rank(text, i))

\* C2: a safe_corrections symbol whose window of 3 characters on each side
\* in the input holds fewer than 2 Odia characters is still there in the
\* output of clean_paragraph_conservatively.
C2_UnsafeSymbolKept ==
    op = "clean_paragraph_conservatively" =>
        \A i \in 1..Len(text) :
            (text[i] \in SafeSymbols /\ OdiaInContext(text, i) < 2)
                => OutputAtPlace(i) = text[i]

\* C3: a safe_corrections symbol whose window of 3 characters on each side
\* in the input holds at least 2 Odia characters is replaced by its mapped
\* character in the output of clean_paragraph_conservatively.
C3_SafeSymbolReplaced ==
    op = "clean_paragraph_conservatively" =>
        \A i \in 1..Len(text) :
            (text[i] \in SafeSymbols /\ OdiaInContext(text, i) >= 2)
                => OutputAtPlace(i) = SafeTarget(text[i])

\* C3 witness: a symbol with exactly 2 Odia characters in its window has
\* been replaced by its mapped character.
C3_Witness ==
    /\ op = "clean_paragraph_conservatively"
    /\ \E i \in 1..Len(text) :
          /\ text[i] \in SafeSymbols
          /\ OdiaInContext(text, i) = 2
          /\ OutputAtPlace(i) = SafeTarget(text[i])

(***************************************************************************)
(* Properties of OdiaTextCleaner.clean_line_level.                         *)
(***************************************************************************)
\* the stripped, non-empty lines of the input
RECURSIVE StrippedLines(_)
StrippedLines(lines) ==
    IF lines = <<>> THEN {}
    ELSE (IF Strip(Head(lines)) = <<>> THEN {} ELSE {Strip(Head(lines))})
            \cup StrippedLines(Tail(lines))

InputLines == StrippedLines(SplitLines(text))

\* the lines of the returned text
OutputLines ==
    IF result = <<>> THEN {}
    ELSE {SplitLines(result)[k] : k \in 1..Len(SplitLines(result))}

\* C7: a stripped line of length 5 or more that is not made only of
\* digits, punctuation and whitespace is kept exactly when more than one
\* fifth of its characters are Odia; at exactly one fifth it is dropped.
C7_LineFilterBoundary ==
    op = "clean_line_level" =>
        \A line \in InputLines :
            (Len(line) >= 5 /\ ~PureNumericLine(line))
                => (line \in OutputLines <=> 5 * OdiaCharCount(line) > Len(line))

\* C7 witness: a line at exactly one fifth has been dropped, and counted.
C7_Witness ==
    /\ op = "clean_line_level"
    /\ \E line \in InputLines :
          /\ Len(line) >= 5
          /\ ~PureNumericLine(line)
          /\ 5 * OdiaCharCount(line) = Len(line)
          /\ line \notin OutputLines
    /\ corrections_made > 0

\* C8: every non-empty stripped line shorter than 5 characters is in the
\* output, whatever its Odia ratio.
C8_ShortLineKept ==
    op = "clean_line_level" =>
        \A line \in InputLines : Len(line) < 5 => line \in OutputLines

\* C8 witness: a short line without any Odia character has been kept next
\* to a long line that was dropped.
C8_Witness ==
    /\ op = "clean_line_level"
    /\ \E line \in InputLines :
          /\ Len(line) < 5
          /\ OdiaCharCount(line) = 0
          /\ ~PureNumericLine(line)
          /\ line \in OutputLines
    /\ count > 0

(***************************************************************************)
(* Properties of AdvancedErrorPatternAnalyzer.                             *)
(***************************************************************************)
\* C10: analyze_document_errors leaves every paragraph of the document
\* unchanged and writes no document; its only result is the report.
C10_AnalyzerReadOnly ==
    [][op' = "analyze_document_errors"
          => (doc' = doc /\ saved' = saved /\ text' = text)]_vars

\* C10 witness: the analyzer has produced a report on a document that was
\* never saved and that holds a paragraph with surrounding whitespace,
\* which the analyzer stripped for its own use only.
C10_Witness ==
    /\ op = "analyze_document_errors"
    /\ report \notin {NoReport, EmptyReport}
    /\ report.total_paragraphs > 0
    /\ saved = NotSaved
    /\ \E k \in 1..Len(doc) : Strip(doc[k]) # <<>> /\ Strip(doc[k]) # doc[k]

(***************************************************************************)
(* Properties of blank units.                                              *)
(***************************************************************************)
Blank(s) == Strip(s) = <<>>

\* C11: an empty or whitespace-only unit gets no correction: clean_text
\* returns the empty text, runs no stage and leaves corrections_made alone;
\* clean_paragraph_conservatively returns the text as it is; the document
\* cleaners keep every paragraph at its place and rewrite no blank one.
C11_BlankUnitUntouched ==
    [][/\ (op' = "clean_text" /\ Blank(text))
            => /\ result' = <<>>
               /\ stages' = <<>>
               /\ corrections_made' = corrections_made
       /\ (op' = "clean_paragraph_conservatively" /\ Blank(text))
            => result' = text
       /\ op' \in {"correct_document", "clean_document"}
            => /\ Len(doc') = Len(doc)
               /\ \A i \in 1..Len(doc) : Blank(doc[i]) => doc'[i] = doc[i]
      ]_vars

\* C11 witness: clean_text has returned the empty text for a text of
\* whitespace that its pattern stage would have rewritten.
C11_Witness ==
    /\ op = "clean_text"
    /\ Len(text) >= 2
    /\ Blank(text)
    /\ result = <<>>
    /\ stages = <<>>
    /\ corrections_made = 0

(***************************************************************************)
(* Properties of OdiaTextCleaner.clean_directory.                          *)
(***************************************************************************)
\* the run has returned statistics (and not the error of a missing directory)
RunReturned == batch.pc = "returned" /\ "files_found" \in DOMAIN batch.stats

\* C12: when a run of clean_directory returns, every file was counted as
\* cleaned or as failed: files_cleaned + files_failed = files_found, and
\* cleaned_files_count = files_cleaned.
C12_RunAccountsForEveryFile ==
    RunReturned =>
        /\ "files_failed" \in DOMAIN batch.stats
        /\ batch.stats.files_cleaned + batch.stats.files_failed
               = batch.stats.files_found
        /\ cleaned_files_count = batch.stats.files_cleaned

AllWorkersDone == \A w \in DOMAIN workers : workers[w].pc = "done"

\* the value of corrections_made after the units of workers 1..n have been
\* cleaned one after the other
RECURSIVE SequentialCorrections(_)
SequentialCorrections(n) ==
    IF n = 0 THEN 0
    ELSE SequentialCorrections(n - 1) + clean_text(workers[n].unit).count

\* C14: when the workers have cleaned their units concurrently with one
\* shared cleaner, every interleaving has produced the cleaned texts and
\* the corrections_made of cleaning the units one after the other.
C14_NoLostUpdate ==
    (workers # NoWorkers /\ AllWorkersDone) =>
        /\ \A w \in DOMAIN workers :
              workers[w].cleaned = clean_text(workers[w].unit).text
        /\ corrections_made = SequentialCorrections(Len(workers))

(***************************************************************************)
(* PDFExtractor.extract_text_from_pdf, step by step: the check of the      *)
(* path, the opening of the file for its page count, the extraction of     *)
(* each page of the range, and the return.                                 *)
(***************************************************************************)
\* the path taken for an existing file without looking
PathAssumed(file) == TRUE

\* pdf_path.exists()
PathExists(file) == file.exists

\* the decimal digits of a natural number
RECURSIVE Decimal(_)
Decimal(n) ==
    IF n < 10 THEN <<48 + n>> ELSE Decimal(n \div 10) \o <<48 + (n % 10)>>

\* f"\n--- Page {page_num} ---\n{page_text}\n"
PageSection(page_num, page_text) ==
    <<10, 45, 45, 45, 32, 80, 97, 103, 101, 32>> \o Decimal(page_num)
        \o <<32, 45, 45, 45, 10>> \o page_text \o <<10>>

\* _extract_page_text: the page's own text when pdfplumber finds some,
\* otherwise what OCR reads from the page's image, and the empty text
\* when the conversion fails
extract_page_text(page) ==
    IF Strip(page.text) # <<>> THEN Strip(page.text)
    ELSE IF page.fails THEN <<>>
    ELSE Strip(Strip(page.ocr) \o <<10>>)

\* the first and the last page extracted
StartPage(page_range) ==
    IF page_range # NoRange THEN Max(1, page_range[1]) ELSE 1
EndPage(page_range, total_pages) ==
    IF page_range # NoRange THEN Min(total_pages, page_range[2])
    ELSE total_pages

InitPdf ==
    /\ text = <<>>
    /\ result = <<>>
    /\ count = 0
    /\ op = "start"
    /\ corrections_made = 0
    /\ doc = <<>>
    /\ saved = NotSaved
    /\ report = NoReport
    /\ OthersIdle

pdfOthers ==
    <<textVars, op, corrections_made, docVars, stages, cleaned_files_count,
      batch, workers>>

\* a call of extract_text_from_pdf(pdf_path, page_range)
ExtractTextFromPdf ==
    /\ pdf.pc \in {"idle", "raised", "returned"}
    /\ \E file \in PdfFiles, page_range \in PageRanges :
          pdf' = [pc |-> "check", file |-> file, page_range |-> page_range,
                  opens |-> 0, pages_extracted |-> 0, page_num |-> 0,
                  end_page |-> 0, extracted_text |-> <<>>,
                  error |-> "", returned |-> <<>>]
    /\ UNCHANGED pdfOthers

\* 'if not pdf_path.exists(): raise PDFExtractionError'
PdfNotFound ==
    /\ pdf.pc = "check"
    /\ ~PathExists(pdf.file)
    /\ pdf' = [pdf EXCEPT !.pc = "raised",
                          !.error = "PDFExtractionError: PDF file not found"]
    /\ UNCHANGED pdfOthers

\* 'with pdfplumber.open(pdf_path) as pdf' and the page range
PdfOpen ==
    /\ pdf.pc = "check"
    /\ PathExists(pdf.file)
    /\ pdf.file.exists /\ pdf.file.readable
    /\ pdf' = [pdf EXCEPT
          !.pc = "pages",
          !.opens = @ + 1,
          !.page_num = StartPage(pdf.page_range),
          !.end_page = EndPage(pdf.page_range, Len(pdf.file.pages))]
    /\ UNCHANGED pdfOthers

\* pdfplumber.open raises, and the handler raises PDFExtractionError
PdfOpenFails ==
    /\ pdf.pc = "check"
    /\ PathExists(pdf.file)
    /\ ~(pdf.file.exists /\ pdf.file.readable)
    /\ pdf' = [pdf EXCEPT
          !.pc = "raised",
          !.opens = @ + 1,
          !.error = "PDFExtractionError: Failed to extract text from PDF"]
    /\ UNCHANGED pdfOthers

\* one round of 'for page_num in range(start_page, end_page + 1)'
PdfExtractPage ==
    /\ pdf.pc = "pages"
    /\ pdf.page_num <= pdf.end_page
    /\ LET page_text == extract_page_text(pdf.file.pages[pdf.page_num]) IN
       pdf' = [pdf EXCEPT
          !.opens = @ + 1,
          !.pages_extracted = @ + 1,
          !.page_num = @ + 1,
          !.extracted_text =
              IF page_text # <<>>
              THEN @ \o PageSection(pdf.page_num, page_text) ELSE @]
    /\ UNCHANGED pdfOthers

\* 'return extracted_text.strip()'
PdfReturn ==
    /\ pdf.pc = "pages"
    /\ pdf.page_num > pdf.end_page
    /\ pdf' = [pdf EXCEPT !.pc = "returned",
                          !.returned = <<Strip(pdf.extracted_text)>>]
    /\ UNCHANGED pdfOthers

NextPdf ==
    \/ ExtractTextFromPdf
    \/ PdfNotFound
    \/ PdfOpen
    \/ PdfOpenFails
    \/ PdfExtractPage
    \/ PdfReturn

SpecPdf == InitPdf /\ [][NextPdf]_vars

(***************************************************************************)
(* Properties of the analysis report.                                      *)
(***************************************************************************)
Analyzed ==
    op = "analyze_document_errors" /\ report \notin {NoReport, EmptyReport}

\* the number of matches of the patterns k.. in s
RECURSIVE TotalMatches(_, _, _)
TotalMatches(patterns, k, s) ==
    IF k > Len(patterns) THEN 0
    ELSE Len(RuleFinditer(patterns[k], s)) + TotalMatches(patterns, k + 1, s)

\* C15: in the report every error category's count is the total number of
\* matches of the category's patterns in the full text, and its examples
\* are the first min(count, 20) of these matches, never more than 20.
C15_SampleCap ==
    Analyzed =>
        \A k \in 1..Len(error_patterns) :
            LET Capped(data, all) ==
                    /\ data.category = error_patterns[k].category
                    /\ data.count = TotalMatches(error_patterns[k].patterns,
                                                 1, full_text(doc))
                    /\ data.examples =
                           SubSeq(all, 1, IF data.count < 20 THEN data.count
                                          ELSE 20)
                    /\ Len(data.examples) <= 20
            IN  Capped(report.error_categories[k],
                       CategoryErrorsFrom(error_patterns[k].patterns, 1,
                                          full_text(doc)))

\* C15 witness: a report with a category whose matches, found by two
\* patterns, exceed the cap, so that examples were left out.
C15_Witness ==
    /\ Analyzed
    /\ \E k \in 1..Len(error_patterns) :
          /\ report.error_categories[k].count > 20
          /\ Len(report.error_categories[k].examples) = 20
          /\ \E j \in 1..19 :
                report.error_categories[k].examples[j].start
                    > report.error_categories[k].examples[j + 1].start

\* the entries of character_substitutions for the character c
SubstitutionsOf(c) ==
    {k \in 1..Len(report.systematic_errors.character_substitutions) :
        report.systematic_errors.character_substitutions[k].character = c}

\* C16: a confusable character has an entry in character_substitutions
\* exactly when it occurs more than 10 times in the text; the entry's
\* confidence is 'high' exactly when the count exceeds 50 and 'medium' for
\* the counts 11 to 50.
C16_SubstitutionThresholds ==
    Analyzed =>
        \A h \in 1..Len(character_confusions) :
            LET Detected(c, n) ==
                    /\ (SubstitutionsOf(c) # {}) <=> (n > 10)
                    /\ \A k \in SubstitutionsOf(c) :
                          LET Graded(e) ==
                                  /\ e.count = n
                                  /\ (e.confidence = "high") <=> (n > 50)
                                  /\ (n \in 11..50) => (e.confidence = "medium")
                          IN  Graded(report.systematic_errors
                                         .character_substitutions[k])
            IN  Detected(character_confusions[h][1],
                         Occurrences(full_text(doc),
                                     character_confusions[h][1]))

\* C16 witness: a report on a text with exactly 50 occurrences of a
\* confusable character, reported with confidence 'medium'.
C16_Witness ==
    /\ Analyzed
    /\ \E k \in SubstitutionsOf(97) :
          /\ report.systematic_errors.character_substitutions[k].count = 50
          /\ report.systematic_errors.character_substitutions[k].confidence
                 = "medium"

\* the recommendations about a category or a substituted character
RecommendationsFor(subject) ==
    {k \in 1..Len(report.correction_recommendations) :
        report.correction_recommendations[k].subject = subject}

\* C17: generate_corrections recommends a correction for every error
\* category with at least one match and for every detected character
\* substitution; the priority is 'high' for broken_words, number_artifacts
\* and symbol_artifacts and for substitutions of confidence 'high', and
\* 'medium' in every other case.
C17_RecommendationPriorities ==
    Analyzed =>
        /\ \A k \in 1..Len(report.error_categories) :
              LET data == report.error_categories[k] IN
              data.count > 0 =>
                  /\ RecommendationsFor(data.category) # {}
                  /\ \A j \in RecommendationsFor(data.category) :
                        report.correction_recommendations[j].priority =
                            IF data.category \in {"broken_words",
                                   "number_artifacts", "symbol_artifacts"}
                            THEN "high" ELSE "medium"
        /\ \A k \in 1..Len(report.systematic_errors.character_substitutions) :
              LET e == report.systematic_errors.character_substitutions[k] IN
              /\ RecommendationsFor(<<e.character>>) # {}
              /\ \A j \in RecommendationsFor(<<e.character>>) :
                    report.correction_recommendations[j].priority
                        = e.confidence

\* the word-break pairs of the text with their numbers of occurrences
WordBreakPairs(s) ==
    LET Groups(found) ==
            [j \in 1..Len(found) |-> <<s[found[j].first], s[found[j].last]>>]
    IN  Counter(Groups(RuleFinditer("join_separated_odia", s)))

\* the 'word_break' review items about a pair
WordBreakItemsOf(pair) ==
    {k \in 1..Len(report.manual_review_items) :
        /\ report.manual_review_items[k].type = "word_break"
        /\ report.manual_review_items[k].pattern = pair}

\* C18: every word-break pair that occurs more than 5 times in the text
\* has a 'word_break' review item, however many pairs do, and a pair that
\* occurs 5 times or fewer has none.
C18_EveryFrequentBreakReviewed ==
    Analyzed =>
        LET Reviewed(pairs) ==
                \A k \in 1..Len(pairs) :
                    (WordBreakItemsOf(pairs[k][1]) # {}) <=> (pairs[k][2] > 5)
        IN  Reviewed(WordBreakPairs(full_text(doc)))

(***************************************************************************)
(* Properties of PDFExtractor.                                             *)
(***************************************************************************)
\* C19: a call of extract_text_from_pdf with a path that does not exist
\* ends by raising PDFExtractionError with no page opened or extracted and
\* without returning a text.
C19_MissingPdfRaisesFirst ==
    (pdf.pc # "idle" /\ ~pdf.file.exists) =>
        /\ pdf.pc \in {"check", "raised"}
        /\ pdf.opens = 0
        /\ pdf.pages_extracted = 0
        /\ pdf.returned = <<>>
        /\ pdf.pc = "raised" =>
              pdf.error = "PDFExtractionError: PDF file not found"

\* C19 witness: the call on a missing path has raised, nothing was opened.
C19_Witness ==
    /\ pdf.pc = "raised"
    /\ ~pdf.file.exists
    /\ pdf.page_range # NoRange
    /\ pdf.opens = 0

(***************************************************************************)
(* apply_pattern_corrections on its own, on texts that exercise the        *)
(* halanta, punctuation and symbol rules.                                  *)
(***************************************************************************)
\* a base letter, the halanta, a run of spaces and newlines, and then
\* nothing or one character of any class the rules tell apart
HalantaInputs ==
    {<<x, 2893>> \o w \o y :
        x \in OdiaBaseLetters,
        w \in Texts({32, 10}, MaxWs) \ {<<>>},
        y \in {<<>>} \cup {<<c>> : c \in FullAlphabet}}

\* danda, period, comma, two symbol artifacts (currency and math) and space
MaxPunct == 4
PunctAlphabet == {2404, 46, 44, 8364, 215, 32}
PunctInputs == Texts(PunctAlphabet, MaxPunct)

\* every character of the symbol rule's class, alone and between two commas
SymbolInputs ==
    {<<c>> : c \in SymbolArtifacts} \cup {<<44, c, 44>> : c \in SymbolArtifacts}

PatternInputs == HalantaInputs \cup PunctInputs \cup SymbolInputs

InitPatterns ==
    /\ text \in PatternInputs
    /\ result = <<>>
    /\ count = 0
    /\ op = "start"
    /\ corrections_made = 0
    /\ doc = <<>>
    /\ saved = NotSaved
    /\ report = NoReport
    /\ OthersIdle

NextPatterns == ApplyPatternCorrections

SpecPatterns == InitPatterns /\ [][NextPatterns]_vars

\* C21: for an input made of an Odia base character, a halanta, a
\* whitespace run and any following character, apply_pattern_corrections
\* returns a text that starts with the base character and one space, the
\* halanta being removed, whatever the following character is.
C21_TrailingHalantaStripped ==
    (op = "apply_pattern_corrections" /\ text \in HalantaInputs) =>
        /\ Len(result) >= 2
        /\ result[1] = text[1]
        /\ result[2] = 32
        /\ At(result, 3) \notin Whitespace

\* the marks of the collapse rules of the specification: danda, period and
\* comma
CollapsedMarks == {2404, 46, 44}

\* two adjacent identical marks
RepeatedMark(s) ==
    \E i \in 1..(Len(s) - 1) : s[i] \in CollapsedMarks /\ s[i + 1] = s[i]

\* C22: the text returned by apply_pattern_corrections never contains two
\* adjacent identical marks among danda, period and comma.
C22_NoRepeatedMark ==
    op = "apply_pattern_corrections" => ~RepeatedMark(result)

\* two dandas or two commas with nothing but symbol artifacts between them
MarksApartBySymbols(s) ==
    /\ Len(s) >= 3
    /\ s[1] \in {2404, 44}
    /\ s[Len(s)] = s[1]
    /\ \A i \in 2..(Len(s) - 1) : s[i] \in SymbolArtifacts

\* C23: the symbol rule runs before the collapse rules and each rule works
\* on the output of the previous one: two dandas, or two commas, separated
\* in the input only by symbol artifacts are returned by
\* apply_pattern_corrections as a single mark.
C23_SymbolsRemovedBeforeCollapse ==
    (op = "apply_pattern_corrections" /\ MarksApartBySymbols(text))
        => result = <<text[1]>>

\* C23 witness: two dandas separated by two symbols came out as one danda.
C23_Witness ==
    /\ op = "apply_pattern_corrections"
    /\ text = <<2404, 8364, 215, 2404>>
    /\ result = <<2404>>

HasSymbolArtifact(s) == \E i \in 1..Len(s) : s[i] \in SymbolArtifacts

\* C24: the text returned by apply_pattern_corrections contains no character
\* of the symbol rule's class, for every input.
C24_NoSymbolArtifactLeft ==
    op = "apply_pattern_corrections" => ~HasSymbolArtifact(result)

\* C24 witness: a text with a single symbol between other characters was
\* returned without the symbol and with its other characters.
C24_Witness ==
    /\ op = "apply_pattern_corrections"
    /\ text = <<46, 8364, 2404>>
    /\ result = <<46, 2404>>

(***************************************************************************)
(* One OdiaTextCleaner used for a sequence of calls: clean_text and        *)
(* clean_file on their own and clean_directory runs, in any order, one     *)
(* call after the other.                                                   *)
(***************************************************************************)
\* the calls made outside a run stop once the counters have reached
\* MaxEarlier
MaxEarlier == 2

\* the texts of the clean_text calls: one that is clean already, one with
\* one correction, one with two
SessionUnits == { <<2837>>, <<215, 2837>>, <<215, 2837, 169>> }

InitSession ==
    /\ text = <<>>
    /\ result = <<>>
    /\ count = 0
    /\ op = "start"
    /\ corrections_made = 0
    /\ doc = <<>>
    /\ saved = NotSaved
    /\ report = NoReport
    /\ OthersIdle

\* a clean_text call between two runs
SessionCleanText ==
    /\ BatchIdle
    /\ corrections_made < MaxEarlier
    /\ \E u \in SessionUnits :
          LET Returned(r) ==
                  /\ text' = u
                  /\ result' = r.text
                  /\ count' = r.count
                  /\ corrections_made' = corrections_made + r.count
                  /\ stages' = r.stages
          IN  Returned(clean_text(u))
    /\ op' = "clean_text"
    /\ UNCHANGED <<docVars, cleaned_files_count, batch, workers, pdf>>

\* a clean_file call between two runs
SessionCleanFile ==
    /\ BatchIdle
    /\ corrections_made < MaxEarlier
    /\ cleaned_files_count < MaxEarlier
    /\ \E file \in FileSamples :
          LET Counted(r) ==
                  /\ corrections_made' = corrections_made + r.count
                  /\ cleaned_files_count' =
                         IF r.ok THEN cleaned_files_count + 1
                         ELSE cleaned_files_count
          IN  Counted(clean_file(file))
    /\ op' = "clean_file"
    /\ UNCHANGED <<textVars, docVars, stages, batch, workers, pdf>>

NextSession ==
    \/ SessionCleanText
    \/ SessionCleanFile
    \/ CleanDirectoryNotFound
    \/ CleanDirectoryNoFiles
    \/ CleanDirectoryStart
    \/ CleanDirectoryFile
    \/ CleanDirectoryReturn

SpecSession == InitSession /\ [][NextSession]_vars

\* the corrections clean_file makes on the files k.. of a run
RECURSIVE RunCorrections(_, _)
RunCorrections(files, k) ==
    IF k > Len(files) THEN 0
    ELSE clean_file(files[k]).count + RunCorrections(files, k + 1)

\* the files of a run that clean_file cleans
RunCleaned(files) ==
    Cardinality({k \in 1..Len(files) : clean_file(files[k]).ok})

\* C25: the corrections_made and files_cleaned that a clean_directory run
\* reports are the corrections made on the files of that run and the number
\* of its files that were cleaned, whatever clean_text, clean_file and
\* clean_directory calls came before on the same cleaner; both counters
\* of the cleaner are 0 when the loop reaches the first file.
C25_RunCountsOnlyItself ==
    /\ (batch.pc = "loop" /\ batch.i = 1) =>
           corrections_made = 0 /\ cleaned_files_count = 0
    /\ (batch.pc = "returned" /\ "files_cleaned" \in DOMAIN batch.stats) =>
           /\ batch.stats.corrections_made = RunCorrections(batch.files, 1)
           /\ batch.stats.files_cleaned = RunCleaned(batch.files)

\* C25 witness: a run that made corrections and cleaned a file has returned
\* after an earlier call had left corrections on the cleaner's counter.
C25_Witness ==
    /\ batch.pc = "returned"
    /\ "files_cleaned" \in DOMAIN batch.stats
    /\ count > 0
    /\ batch.stats.corrections_made > 0
    /\ batch.stats.files_cleaned > 0
    /\ batch.stats.files_failed > 0

(***************************************************************************)
(* The character corrections of clean_paragraph_conservatively step by     *)
(* step: one step per entry of safe_corrections.  result is the variable   *)
(* 'cleaned' of the code and count the number of entries the loop has      *)
(* gone through.                                                           *)
(***************************************************************************)
\* an Odia vowel, two mapped symbols and the space
MaxFrameLen == 5
FrameAlphabet == {2821, 8364, 169, 32}
FrameInputs == Texts(FrameAlphabet, MaxFrameLen)

InitFrame ==
    /\ text \in FrameInputs
    /\ result = <<>>
    /\ count = 0
    /\ op = "start"
    /\ corrections_made = 0
    /\ doc = <<>>
    /\ saved = NotSaved
    /\ report = NoReport
    /\ OthersIdle

\* 'cleaned = text', for a text that is not blank
SafeCorrectionsBegin ==
    /\ op = "start"
    /\ Strip(text) # <<>>
    /\ op' = "safe_corrections"
    /\ result' = text
    /\ count' = 0
    /\ UNCHANGED <<text, corrections_made, docVars, otherVars>>

\* the body of the loop over safe_corrections for the next entry
SafeCorrectionsStep ==
    /\ op = "safe_corrections"
    /\ count < Len(safe_corrections)
    /\ result' = SafeReplaceFrom(result, 1, safe_corrections[count + 1][1],
                                 safe_corrections[count + 1][2])
    /\ count' = count + 1
    /\ UNCHANGED <<text, op, corrections_made, docVars, otherVars>>

NextFrame == SafeCorrectionsBegin \/ SafeCorrectionsStep

SpecFrame == InitFrame /\ [][NextFrame]_vars

\* the text keeps its length, and every character that is not a
\* safe_corrections symbol is unchanged at its index
FrameKept ==
    op = "safe_corrections" =>
        /\ Len(result) = Len(text)
        /\ \A i \in 1..Len(text) :
              text[i] \notin SafeSymbols => result[i] = text[i]

\* a step for one symbol replaces exactly the positions that hold the
\* symbol and are safe on the text the step started from
SnapshotStep ==
    (op = "safe_corrections" /\ count' = count + 1) =>
        \A i \in 1..Len(result) :
            (result'[i] # result[i]) <=>
                /\ result[i] = safe_corrections[count + 1][1]
                /\ is_safe_to_correct(result, i)

\* C26: during the character corrections of clean_paragraph_conservatively
\* the text keeps its length, every character that is not a
\* safe_corrections symbol stays unchanged at its index, and for one symbol
\* the positions replaced are those that were safe before any of them was
\* replaced.
C26_CharacterPhaseFrame == []FrameKept /\ [][SnapshotStep]_vars

\* C26 witness: the loop is through; of two euro signs the first was safe
\* and has been replaced, the second was not safe before that replacement
\* and is still there.
C26_Witness ==
    /\ op = "safe_corrections"
    /\ count = Len(safe_corrections)
    /\ text = <<2821, 2821, 8364, 32, 8364>>
    /\ result = <<2821, 2821, 2831, 32, 8364>>

(***************************************************************************)
(* OdiaTextCleaner.clean_text on multi-line texts and on texts with        *)
(* characters of every class the character stage tells apart.              *)
(***************************************************************************)
\* lines of Odia consonants and em dashes, which the character and pattern
\* stages leave as they are: two that the line filter keeps on their own
\* (ratios 1 and 2/5) and two that it drops on their own (ratios 0 and 1/6)
MaxLines == 2
SampleLines ==
    { <<2837>>,
      <<2837, 2837, 8212, 8212, 8212>>,
      <<8212, 8212, 8212, 8212, 8212>>,
      <<2837, 8212, 8212, 8212, 8212, 8212>> }
LinewiseInputs ==
    {JoinLines(ls) : ls \in UNION {[1..n -> SampleLines] : n \in 1..MaxLines}}

\* an Odia and a Devanagari consonant, a Latin letter, a digit, two
\* char_corrections symbols, the trade mark sign (neither valid nor in
\* char_corrections), space and newline
MaxTextLen == 3
TextAlphabet == {2837, 2325, 97, 49, 215, 47, 8482, 32, 10}

CharCorrectionSymbols == {char_corrections[k] : k \in 1..Len(char_corrections)}

\* every char_corrections symbol and every Latin letter after a consonant
SymbolAndLetterInputs ==
    {<<2837, c>> : c \in CharCorrectionSymbols \cup AsciiLetters}

PipelineInputs ==
    LinewiseInputs \cup Texts(TextAlphabet, MaxTextLen)
        \cup SymbolAndLetterInputs

InitPipeline ==
    /\ text \in PipelineInputs
    /\ result = <<>>
    /\ count = 0
    /\ op = "start"
    /\ corrections_made = 0
    /\ doc = <<>>
    /\ saved = NotSaved
    /\ report = NoReport
    /\ OthersIdle

NextPipeline == CleanText

SpecPipeline == InitPipeline /\ [][NextPipeline]_vars

\* the lines that qualify on their own: Odia ratio above 0.2
RECURSIVE QualifyingLines(_)
QualifyingLines(lines) ==
    IF lines = <<>> THEN <<>>
    ELSE (IF OdiaRatioAboveThreshold(Head(lines)) THEN <<Head(lines)>>
          ELSE <<>>) \o QualifyingLines(Tail(lines))

\* C27: clean_text keeps or drops each line of a multi-line input on the
\* line's own content: the returned text is made of the lines whose own
\* Odia ratio is above 0.2, each on a line of its own, and of no other line.
C27_LinesFilteredSeparately ==
    (op = "clean_text" /\ text \in LinewiseInputs) =>
        result = JoinLines(QualifyingLines(SplitLines(text)))

\* C30: every character of the text returned by clean_text satisfies
\* is_valid_character; none is a char_corrections symbol or a Latin letter.
C30_OutputAlphabet ==
    op = "clean_text" =>
        \A i \in 1..Len(result) :
            /\ is_valid_character(result[i])
            /\ result[i] \notin CharCorrectionSymbols
            /\ result[i] \notin AsciiLetters

\* C30 witness: a text with a Latin letter and a char_corrections symbol
\* next to Odia characters was returned as its Odia characters.
C30_Witness ==
    /\ op = "clean_text"
    /\ \E i, j \in 1..Len(text) :
          /\ text[i] \in AsciiLetters
          /\ text[j] \in CharCorrectionSymbols
    /\ Len(result) > 0
    /\ \A i \in 1..Len(result) : result[i] \in valid_odia_range

(***************************************************************************)
(* ConservativeCleaner run again on its own output.                        *)
(***************************************************************************)
\* C28 as stated: clean_paragraph_conservatively applied to its own output
\* returns the same text, for every paragraph text.
C28_CleanerIdempotent ==
    op = "clean_paragraph_conservatively" =>
        clean_paragraph_conservatively(result) = result

\* no safe_corrections symbol of s has 2 or more Odia characters in its
\* window
NothingSafeLeft(s) ==
    \A i \in 1..Len(s) : s[i] \in SafeSymbols => OdiaInContext(s, i) < 2

\* C28 amended: clean_paragraph_conservatively applied to its own output
\* returns the same text whenever no safe_corrections symbol left in that
\* output has 2 or more Odia characters in its window.
C28_IdempotentOnceNothingIsSafe ==
    (op = "clean_paragraph_conservatively" /\ NothingSafeLeft(result)) =>
        clean_paragraph_conservatively(result) = result

\* C28 witness: the first run replaced a symbol, a symbol with fewer than 2
\* Odia characters around it is left, and the second run returns the same
\* text.
C28_Witness ==
    /\ op = "clean_paragraph_conservatively"
    /\ \E i \in 1..Len(text) :
          text[i] \in SafeSymbols /\ OutputAtPlace(i) = SafeTarget(text[i])
    /\ \E i \in 1..Len(result) : result[i] \in SafeSymbols
    /\ NothingSafeLeft(result)
    /\ clean_paragraph_conservatively(result) = result

\* C29: no 'character_review' item of the report, the items described as
\* "High-frequency non-Odia character", is about a character of the Odia
\* block U+0B00..U+0B7F.
C29_NoOdiaCharacterReviewed ==
    Analyzed =>
        \A k \in 1..Len(report.manual_review_items) :
            report.manual_review_items[k].type = "character_review"
                => report.manual_review_items[k].pattern[1] \notin OdiaBlock

=============================================================================
